---------------------------- MODULE Spec2Model ----------------------------
(***************************************************************************)
(* Model of the career-curve job-posting ingestion pipeline: the URL       *)
(* validator (validateUrl) and the analyze-job edge function with its      *)
(* optimistic credit deduction on user_subscriptions.                      *)
(*                                                                         *)
(* Strings are sequences of one-character strings, so that trimming,       *)
(* prefix/suffix tests, URL parsing and length checks are computed, not    *)
(* assumed.                                                                *)
(***************************************************************************)
EXTENDS Integers, Sequences, FiniteSets, TLC

(***************************************************************************)
(* Bounds of the model                                                     *)
(***************************************************************************)
\* largest number of blanks put around a raw URL input
MaxPad == 1

(***************************************************************************)
(* Program constants                                                       *)
(***************************************************************************)
\* z.string().max(2000) and the length re-check inside validateUrl
MaxUrlLen == 2000

(***************************************************************************)
(* String helpers (String.prototype.trim / startsWith / endsWith /         *)
(* includes / toLowerCase)                                                 *)
(***************************************************************************)
Lower == <<"a","b","c","d","e","f","g","h","i","j","k","l","m","n","o","p","q","r","s","t","u","v","w","x","y","z">>
Upper == <<"A","B","C","D","E","F","G","H","I","J","K","L","M","N","O","P","Q","R","S","T","U","V","W","X","Y","Z">>
Digits == {"0","1","2","3","4","5","6","7","8","9"}
HexDigits == Digits \cup {"a","b","c","d","e","f"}
Letters == {Lower[i] : i \in 1..26} \cup {Upper[i] : i \in 1..26}
Blank == " "

Range(s) == {s[i] : i \in 1..Len(s)}

Rep(c, n) == [i \in 1..n |-> c]

LowerChar(c) ==
    IF \E i \in 1..26 : Upper[i] = c
    THEN Lower[CHOOSE i \in 1..26 : Upper[i] = c]
    ELSE c

ToLowerCase(s) == [i \in 1..Len(s) |-> LowerChar(s[i])]

\* index of the first non-blank character, Len(s)+1 when there is none
FirstNonBlank(s) ==
    IF \E i \in 1..Len(s) : s[i] # Blank
    THEN CHOOSE i \in 1..Len(s) : s[i] # Blank /\ \A j \in 1..(i-1) : s[j] = Blank
    ELSE Len(s) + 1

\* index of the last non-blank character, 0 when there is none
LastNonBlank(s) ==
    IF \E i \in 1..Len(s) : s[i] # Blank
    THEN CHOOSE i \in 1..Len(s) : s[i] # Blank /\ \A j \in (i+1)..Len(s) : s[j] = Blank
    ELSE 0

Trim(s) == SubSeq(s, FirstNonBlank(s), LastNonBlank(s))

StartsWith(s, p) == Len(s) >= Len(p) /\ SubSeq(s, 1, Len(p)) = p

EndsWith(s, p) == Len(s) >= Len(p) /\ SubSeq(s, Len(s) - Len(p) + 1, Len(s)) = p

Includes(s, p) == \E i \in 1..(Len(s) - Len(p) + 1) : SubSeq(s, i, i + Len(p) - 1) = p

\* index of the first character of s that lies in C, 0 when there is none
FirstIn(s, C) ==
    IF \E i \in 1..Len(s) : s[i] \in C
    THEN CHOOSE i \in 1..Len(s) : s[i] \in C /\ \A j \in 1..(i-1) : s[j] \notin C
    ELSE 0

\* index of the last character of s that lies in C, 0 when there is none
LastIn(s, C) ==
    IF \E i \in 1..Len(s) : s[i] \in C
    THEN CHOOSE i \in 1..Len(s) : s[i] \in C /\ \A j \in (i+1)..Len(s) : s[j] \notin C
    ELSE 0

DigitVal(c) == CHOOSE n \in 0..9 : <<"0","1","2","3","4","5","6","7","8","9">>[n + 1] = c

\* value of a string of decimal digits
RECURSIVE Decimal(_)
Decimal(s) ==
    IF Len(s) = 0 THEN 0
    ELSE 10 * Decimal(SubSeq(s, 1, Len(s) - 1)) + DigitVal(s[Len(s)])

(***************************************************************************)
(* new URL(formattedUrl): the WHATWG parser for absolute URLs, restricted  *)
(* to what validateUrl reads (protocol, hostname).  Hosts are domain names *)
(* whose last label is not a number, dotted-decimal IPv4 literals and      *)
(* bracketed, already compressed IPv6 literals; those serialize to their   *)
(* lower-cased selves.                                                     *)
(***************************************************************************)
S_http == <<"h","t","t","p">>
S_https == <<"h","t","t","p","s">>
S_httpsPrefix == <<"h","t","t","p","s",":","/","/">>
S_linkedin == <<"l","i","n","k","e","d","i","n",".","c","o","m">>

SchemeChars == Letters \cup Digits \cup {"+", "-", "."}
ForbiddenHostChars ==
    {" ", "#", "/", ":", "<", ">", "?", "@", "[", "\\", "]", "^", "|", "%"}

ParseFailure == [ok |-> FALSE]

\* host parsing: [ok, hostname]
ParseHost(host) ==
    IF Len(host) = 0 THEN ParseFailure
    ELSE IF host[1] = "["
    THEN IF /\ host[Len(host)] = "]"
            /\ Len(host) >= 4
            /\ Range(ToLowerCase(SubSeq(host, 2, Len(host) - 1))) \subseteq HexDigits \cup {":"}
            /\ ":" \in Range(host)
         THEN [ok |-> TRUE, hostname |-> ToLowerCase(host)]
         ELSE ParseFailure
    ELSE IF Range(host) \cap ForbiddenHostChars # {} THEN ParseFailure
    ELSE [ok |-> TRUE, hostname |-> ToLowerCase(host)]

\* authority = [userinfo "@"] host [":" port]
ParseAuthority(authority) ==
    LET at       == LastIn(authority, {"@"})
        hostport == SubSeq(authority, at + 1, Len(authority))
        closing  == FirstIn(hostport, {"]"})
        colon    == IF Len(hostport) > 0 /\ hostport[1] = "[" /\ closing > 0
                    THEN IF closing < Len(hostport) /\ hostport[closing + 1] = ":"
                         THEN closing + 1 ELSE 0
                    ELSE FirstIn(hostport, {":"})
        host     == IF colon = 0 THEN hostport ELSE SubSeq(hostport, 1, colon - 1)
        port     == IF colon = 0 THEN <<>> ELSE SubSeq(hostport, colon + 1, Len(hostport))
    IN  IF ~(Range(port) \subseteq Digits) THEN ParseFailure
        ELSE IF Len(port) > 5 \/ Decimal(port) > 65535 THEN ParseFailure
        ELSE ParseHost(host)

ParseUrl(s) ==
    LET colon == FirstIn(s, {":"})
    IN  IF \/ colon <= 1
           \/ s[1] \notin Letters
           \/ \E i \in 1..(colon - 1) : s[i] \notin SchemeChars
        THEN ParseFailure
        ELSE
          LET scheme == ToLowerCase(SubSeq(s, 1, colon - 1))
              rest   == SubSeq(s, colon + 1, Len(s))
          IN  IF scheme \notin {S_http, S_https}
              THEN [ok |-> TRUE, protocol |-> scheme \o <<":">>, hostname |-> <<>>]
              ELSE
                LET start   == FirstIn(rest, Range(rest) \ {"/", "\\"})
                    after   == IF start = 0 THEN <<>> ELSE SubSeq(rest, start, Len(rest))
                    stop    == FirstIn(after, {"/", "\\", "?", "#"})
                    authority == IF stop = 0 THEN after ELSE SubSeq(after, 1, stop - 1)
                    h       == ParseAuthority(authority)
                IN  IF h.ok
                    THEN [ok |-> TRUE, protocol |-> scheme \o <<":">>, hostname |-> h.hostname]
                    ELSE ParseFailure

(***************************************************************************)
(* validateUrl                                                             *)
(***************************************************************************)
ALLOWED_DOMAINS ==
    { <<"l","i","n","k","e","d","i","n",".","c","o","m">>,
      <<"i","n","d","e","e","d",".","c","o","m">>,
      <<"g","l","a","s","s","d","o","o","r",".","c","o","m">>,
      <<"j","o","b","k","o","r","e","a",".","c","o",".","k","r">>,
      <<"s","a","r","a","m","i","n",".","c","o",".","k","r">>,
      <<"w","a","n","t","e","d",".","c","o",".","k","r">>,
      <<"r","o","c","k","e","t","p","u","n","c","h",".","c","o","m">>,
      <<"j","u","m","p","i","t",".","c","o",".","k","r">>,
      <<"p","r","o","g","r","a","m","m","e","r","s",".","c","o",".","k","r">>,
      <<"c","a","t","c","h",".","c","o",".","k","r">>,
      <<"i","n","c","r","u","i","t",".","c","o","m">>,
      <<"w","o","r","k","n","e","t",".","g","o",".","k","r">>,
      <<"a","l","b","a","m","o","n",".","c","o","m">>,
      <<"a","l","b","a",".","c","o",".","k","r">>,
      <<"j","o","b",".","g","o",".","k","r">>,
      <<"c","a","r","e","e","r",".","c","o",".","k","r">>,
      <<"j","o","b","s",".","l","e","v","e","r",".","c","o">>,
      <<"b","o","a","r","d","s",".","g","r","e","e","n","h","o","u","s","e",".","i","o">>,
      <<"j","o","b","-","b","o","a","r","d","s",".","g","r","e","e","n","h","o","u","s","e",".","i","o">>,
      <<"j","o","b","s",".","a","s","h","b","y","h","q",".","c","o","m">>,
      <<"a","p","p","l","y",".","w","o","r","k","a","b","l","e",".","c","o","m">>,
      <<"j","o","b","s",".","s","m","a","r","t","r","e","c","r","u","i","t","e","r","s",".","c","o","m">>,
      <<"r","e","c","r","u","i","t","i","n","g",".","p","a","y","l","o","c","i","t","y",".","c","o","m">>,
      <<"m","o","n","s","t","e","r",".","c","o","m">>,
      <<"z","i","p","r","e","c","r","u","i","t","e","r",".","c","o","m">>,
      <<"c","a","r","e","e","r","b","u","i","l","d","e","r",".","c","o","m">>,
      <<"d","i","c","e",".","c","o","m">>,
      <<"s","i","m","p","l","y","h","i","r","e","d",".","c","o","m">>,
      <<"f","l","e","x","j","o","b","s",".","c","o","m">>,
      <<"a","n","g","e","l",".","c","o">>,
      <<"w","e","l","l","f","o","u","n","d",".","c","o","m">>,
      <<"r","e","m","o","t","e","o","k",".","c","o","m">>,
      <<"w","e","w","o","r","k","r","e","m","o","t","e","l","y",".","c","o","m">>,
      <<"s","t","a","c","k","o","v","e","r","f","l","o","w",".","j","o","b","s">>,
      <<"h","i","r","e","d",".","c","o","m">>,
      <<"t","r","i","p","l","e","b","y","t","e",".","c","o","m">> }

ErrProtocol == "unsupported URL format: enter an http or https URL"
ErrInvalidHost == "invalid URL: enter a proper job posting URL"
ErrUnsupportedSite == "unsupported site: enter the URL of a major job board"
ErrTooLong == "URL too long"
ErrMalformed == "not a proper URL format"

LocalHosts == { <<"l","o","c","a","l","h","o","s","t">>, <<"1","2","7",".","0",".","0",".","1">>, <<"0",".","0",".","0",".","0">>, <<":",":","1">> }

\* /^172\.(1[6-9]|2[0-9]|3[0-1])\./
Is172Private(h) ==
    /\ Len(h) >= 7
    /\ SubSeq(h, 1, 4) = <<"1","7","2",".">>
    /\ h[5] \in Digits /\ h[6] \in Digits
    /\ Decimal(SubSeq(h, 5, 6)) \in 16..31
    /\ h[7] = "."

\* /^fd[0-9a-f]{2}:/i
IsFdUniqueLocal(h) ==
    /\ Len(h) >= 5
    /\ SubSeq(h, 1, 2) = <<"f","d">>
    /\ ToLowerCase(SubSeq(h, 3, 4)) \in [1..2 -> HexDigits]
    /\ h[5] = ":"

IsPrivateHost(h) ==
    \/ StartsWith(h, <<"1","0",".">>)
    \/ Is172Private(h)
    \/ StartsWith(h, <<"1","9","2",".","1","6","8",".">>)
    \/ StartsWith(h, <<"1","6","9",".","2","5","4",".">>)
    \/ StartsWith(h, <<"f","e","8","0",":">>)
    \/ StartsWith(h, <<"f","c","0","0",":">>)
    \/ IsFdUniqueLocal(h)

\* the allowlist test without the dot boundary: C6 has to tell it from IsAllowed
IsAllowedNoBoundary(hostname) ==
    \E allowed \in ALLOWED_DOMAINS : EndsWith(hostname, allowed)

\* ALLOWED_DOMAINS.some(allowed => hostname === allowed || hostname.endsWith('.' + allowed))
IsAllowed(hostname) ==
    \E allowed \in ALLOWED_DOMAINS :
        hostname = allowed \/ EndsWith(hostname, <<".">> \o allowed)

\* urlString.trim().startsWith('http') ? urlString.trim() : `https://${urlString.trim()}`
FormatUrl(urlString) ==
    IF StartsWith(Trim(urlString), S_http)
    THEN Trim(urlString)
    ELSE S_httpsPrefix \o Trim(urlString)

validateUrl(urlString) ==
    LET parsed == ParseUrl(FormatUrl(urlString))
    IN  IF ~parsed.ok THEN [valid |-> FALSE, error |-> ErrMalformed]
        ELSE IF parsed.protocol \notin {S_https \o <<":">>, S_http \o <<":">>}
        THEN [valid |-> FALSE, error |-> ErrProtocol]
        ELSE
          LET hostname == ToLowerCase(parsed.hostname)
          IN  IF hostname \in LocalHosts THEN [valid |-> FALSE, error |-> ErrInvalidHost]
              ELSE IF IsPrivateHost(hostname) THEN [valid |-> FALSE, error |-> ErrInvalidHost]
              ELSE IF ~IsAllowed(hostname) THEN [valid |-> FALSE, error |-> ErrUnsupportedSite]
              ELSE IF Len(FormatUrl(urlString)) > MaxUrlLen
              THEN [valid |-> FALSE, error |-> ErrTooLong]
              ELSE [valid |-> TRUE, url |-> FormatUrl(urlString)]


(***************************************************************************)
(* Raw inputs given to validateUrl: blanks, an optional scheme, a host and *)
(* a path, plus inputs at the length limit of the request schema.          *)
(***************************************************************************)
InputSchemes ==
    { <<>>, <<"h","t","t","p",":","/","/">>, <<"h","t","t","p","s",":","/","/">>, <<"H","T","T","P","S",":","/","/">>, <<"f","t","p",":","/","/">>, <<"h","t","t","p","x",":","/","/">> }

InputHosts ==
    { <<"w","a","n","t","e","d",".","c","o",".","k","r">>, <<"w","w","w",".","w","a","n","t","e","d",".","c","o",".","k","r">>, <<"l","i","n","k","e","d","i","n",".","c","o","m">>,
      <<"w","w","w",".","l","i","n","k","e","d","i","n",".","c","o","m">>, <<"W","W","W",".","L","i","n","k","e","d","I","n",".","c","o","m">>, <<"j","o","b","s",".","l","e","v","e","r",".","c","o">>,
      <<"l","e","v","e","r",".","c","o">>, <<"n","o","t","l","i","n","k","e","d","i","n",".","c","o","m">>,
      <<"e","v","i","l","-","l","i","n","k","e","d","i","n",".","c","o","m",".","a","t","t","a","c","k","e","r",".","n","e","t">>, <<"l","i","n","k","e","d","i","n",".","c","o","m",".","e","v","i","l",".","n","e","t">>,
      <<"l","i","n","k","e","d","i","n",".","c","o","m","@","e","v","i","l",".","n","e","t">>, <<"l","i","n","k","e","d","i","n",".","c","o","m",".">>,
      <<"h","t","t","p",".","l","i","n","k","e","d","i","n",".","c","o","m">>, <<"1","0",".","l","i","n","k","e","d","i","n",".","c","o","m">>,
      <<"w","a","n","t","e","d",".","c","o",".","k","r",":","8","0","8","0">>, <<"w","a","n","t","e","d",".","c","o",".","k","r",":","p","o","r","t">>, <<"l","i","n","k","e","d"," ","i","n",".","c","o","m">>,
      <<"l","o","c","a","l","h","o","s","t">>, <<"1","2","7",".","0",".","0",".","1">>, <<"0",".","0",".","0",".","0">>, <<"1","0",".","0",".","0",".","1">>,
      <<"1","7","2",".","1","6",".","0",".","1">>, <<"1","7","2",".","3","2",".","0",".","1">>, <<"1","9","2",".","1","6","8",".","0",".","1">>,
      <<"1","6","9",".","2","5","4",".","1","6","9",".","2","5","4">>, <<"[",":",":","1","]">>, <<"[","f","e","8","0",":",":","1","]">>, <<"[","f","d","1","2",":",":","1","]">>,
      <<"e","x","a","m","p","l","e",".","c","o","m">>, <<>> }

InputPaths == { <<>>, <<"/","w","d","/","1","2","3","4","5">>, <<"/","?","n","e","x","t","=","l","i","n","k","e","d","i","n",".","c","o","m">> }

\* inputs whose length is at, or within a scheme prefix of, the schema's limit
LongInputs ==
    { <<"w","a","n","t","e","d",".","c","o",".","k","r","/">> \o Rep("a", n - 13) :
          n \in {MaxUrlLen - 8, MaxUrlLen - 7, MaxUrlLen} }
    \cup { <<"h","t","t","p","s",":","/","/","w","a","n","t","e","d",".","c","o",".","k","r","/">> \o Rep("a", MaxUrlLen - 21) }

UrlInputs ==
    { Rep(Blank, p) \o sch \o host \o path \o Rep(Blank, p) :
          p \in 0..MaxPad, sch \in InputSchemes, host \in InputHosts, path \in InputPaths }
    \cup LongInputs

(***************************************************************************)
(* JSON texts and values, as far as the handler inspects them.  A text is  *)
(* empty, prose (not JSON) or the serialization of a JSON value.           *)
(***************************************************************************)
Undefined == [t |-> "undefined"]
JNull == [t |-> "null"]
JObject(isJobPosting) == [t |-> "object", isJobPosting |-> isJobPosting]
JString(text) == [t |-> "string", s |-> text]

EmptyText == [kind |-> "empty"]
Prose == [kind |-> "prose"]

JsonStringify(v) == [kind |-> "json", value |-> v]

\* JSON.parse: [ok, value]; ok = FALSE when it throws
JsonParse(text) ==
    IF text.kind = "json" THEN [ok |-> TRUE, value |-> text.value] ELSE [ok |-> FALSE]

\* a ?? b
Nullish(a, b) == IF a.t \in {"undefined", "null"} THEN b ELSE a

\* JavaScript truthiness of a JSON value or undefined
Truthy(v) ==
    /\ v.t \notin {"undefined", "null"}
    /\ v.t = "string" => v.s.kind # "empty"

(***************************************************************************)
(* normalizeGeminiToLovable                                                *)
(***************************************************************************)
TextPart(text) == [text |-> text]
\* a part { functionCall: { args, arguments } }; Undefined stands for a missing field
FunctionCallOf(args, arguments) == [functionCall |-> [args |-> args, arguments |-> arguments]]
FunctionCallPart(args) == FunctionCallOf(args, Undefined)

IsTextPart(part) == "text" \in DOMAIN part
IsFunctionCallPart(part) == "functionCall" \in DOMAIN part

\* a join that is non-empty whenever a text part exists, empty or not: C21 has to
\* tell it from JoinTexts
JoinTextsAnyPart(parts) ==
    IF \E i \in 1..Len(parts) : IsTextPart(parts[i]) THEN Prose ELSE EmptyText

\* parts.filter(text is a string).map(text).join('')
JoinTexts(parts) ==
    LET texts == {i \in 1..Len(parts) : IsTextPart(parts[i]) /\ parts[i].text.kind # "empty"}
    IN  IF texts = {} THEN EmptyText
        ELSE IF Cardinality(texts) = 1 THEN parts[CHOOSE i \in texts : TRUE].text
        ELSE Prose

normalizeGeminiToLovable(aiData) ==
    LET parts == aiData.parts
        textParts == JoinTexts(parts)
        fcs == {i \in 1..Len(parts) : IsFunctionCallPart(parts[i])}
        toolCalls ==
            IF fcs # {}
            THEN LET functionPart == parts[CHOOSE i \in fcs : \A j \in fcs : i <= j]
                     args == Nullish(functionPart.functionCall.args,
                                     functionPart.functionCall.arguments)
                 IN  <<[arguments |->
                          IF args.t = "string" THEN args.s
                          ELSE JsonStringify(Nullish(args, JObject("absent")))]>>
            ELSE IF textParts.kind # "empty"
            THEN LET parsed == JsonParse(textParts)
                 IN  IF parsed.ok
                     THEN <<[arguments |->
                              IF parsed.value.t = "string" THEN parsed.value.s
                              ELSE JsonStringify(parsed.value)]>>
                     ELSE <<>>
            ELSE <<>>
    IN  IF textParts.kind = "empty" /\ toolCalls = <<>>
        THEN [isNull |-> TRUE]
        ELSE [isNull |-> FALSE, content |-> textParts, tool_calls |-> toolCalls]

(***************************************************************************)
(* buildGeminiRequest, as far as tools and tool_choice go                  *)
(***************************************************************************)
NoToolChoice == [type |-> "none"]
ForcedToolChoice(name) == [type |-> "function", name |-> name]

\* a request that leaves the model free to answer without a function call: C14 has
\* to tell it from buildGeminiRequest
buildGeminiRequestAuto(payload) ==
    [functionDeclarations |-> payload.tools,
     toolConfig |-> [mode |-> "AUTO", allowedFunctionNames |-> {}]]

\* the payload's tools are function names; tool_choice is forced or absent
buildGeminiRequest(payload) ==
    [functionDeclarations |-> payload.tools,
     toolConfig |->
        IF payload.tool_choice.type = "function" /\ payload.tool_choice.name # ""
        THEN [mode |-> "ANY", allowedFunctionNames |-> {payload.tool_choice.name}]
        ELSE [mode |-> "AUTO", allowedFunctionNames |-> {}]]

(***************************************************************************)
(* analyze-job: responses, one definition per return statement             *)
(***************************************************************************)
Failure(status, site, error, flags) ==
    [status |-> status, body |-> "json", success |-> FALSE, error |-> error,
     site |-> site, cause |-> site, flags |-> flags]

OptionsResponse ==
    [status |-> 200, body |-> "null", success |-> FALSE, error |-> "",
     site |-> "options", cause |-> "options", flags |-> {}]
NoAuthHeaderResponse == Failure(401, "noAuthHeader", "login required", {})
\* a 403 in place of the 401: C9 has to tell it from AuthErrorResponse
AuthErrorResponseForbidden == Failure(403, "authError", "session expired, log in again", {})
AuthErrorResponse == Failure(401, "authError", "session expired, log in again", {})
NoSubscriptionResponse == Failure(404, "noSubscription", "subscription not found", {})
\* a 200 in place of the 402: C5 has to tell it from NoCreditsResponse
NoCreditsResponseAccepted == Failure(200, "noCredits", "not enough AI credits", {})
NoCreditsResponse == Failure(402, "noCredits", "not enough AI credits", {})
CreditConflictResponse == Failure(409, "creditConflict", "credit deduction failed, retry", {})
\* a 422 in place of the 400: C10 has to tell it from SchemaErrorResponse
SchemaErrorResponseUnprocessable == Failure(422, "schema", "malformed request", {})
SchemaErrorResponse == Failure(400, "schema", "malformed request", {})
UrlRejectedResponse(error) == Failure(400, "urlRejected", error, {})
NoFirecrawlKeyResponse == Failure(500, "noFirecrawlKey", "page analysis is not configured", {})
NoGeminiKeyResponse == Failure(500, "noGeminiKey", "AI is not configured", {})
\* the same response without its unsupportedSite flag: C11 has to tell it from
\* UnsupportedSiteResponse
UnsupportedSiteResponseUnflagged ==
    Failure(400, "unsupportedSite", "automatic analysis is restricted, paste the posting", {})
UnsupportedSiteResponse ==
    Failure(400, "unsupportedSite", "automatic analysis is restricted, paste the posting",
            {"unsupportedSite"})
ScrapeFailedResponse == Failure(400, "scrapeFailed", "could not fetch the page content", {})
ContentTooShortResponse == Failure(400, "contentTooShort", "could not get the page content", {})
AiRateLimitedResponse == Failure(429, "aiRateLimited", "too many requests", {})
AiPaymentResponse == Failure(402, "aiPayment", "AI credits are required", {})
AiFailedResponse == Failure(500, "aiFailed", "AI analysis failed", {})
NoContentResponse == Failure(400, "noContent", "could not extract the posting", {"noContent"})
NotJobPostingResponse == Failure(400, "notJobPosting", "this is not a job posting", {})
SuccessResponse ==
    [status |-> 200, body |-> "json", success |-> TRUE, error |-> "",
     site |-> "success", cause |-> "success", flags |-> {}]
\* catch (error): the message is the thrown one when it holds Hangul, else the fallback
FallbackMessage == "server error, retry later"
CatchAllResponse(thrown) ==
    [Failure(500, "catchAll", IF thrown.hangul THEN thrown.message ELSE FallbackMessage, {})
        EXCEPT !.cause = thrown.what]

\* what the runtime and the libraries throw: messages without Hangul
BodyNotJson == [message |-> "Unexpected token in JSON", hangul |-> FALSE, what |-> "bodyNotJson"]
ScrapeThrew == [message |-> "error sending request", hangul |-> FALSE, what |-> "scrapeThrew"]
AiThrew == [message |-> "error sending request", hangul |-> FALSE, what |-> "aiThrew"]

(***************************************************************************)
(* sanitizeSchema.  A schema value is a primitive, an array or an object;  *)
(* an object is a function from its keys to values.                        *)
(***************************************************************************)
\* deepest nesting of the schemas given to sanitizeSchema
MaxDepth == 2

Prim(v) == [t |-> "prim", v |-> v]
Arr(items) == [t |-> "array", items |-> items]
Obj(fields) == [t |-> "object", fields |-> fields]

\* key === 'additionalProperties' || key === 'nullable'
RemovedKeys == {"additionalProperties", "nullable"}

\* a sanitizer that cleans the top-level object only: C22 has to tell it from
\* sanitizeSchema
sanitizeSchemaShallow(value) ==
    IF value.t = "object"
    THEN Obj([key \in DOMAIN value.fields \ RemovedKeys |-> value.fields[key]])
    ELSE value

RECURSIVE sanitizeSchema(_)
sanitizeSchema(value) ==
    IF value.t = "array"
    THEN Arr([i \in 1..Len(value.items) |-> sanitizeSchema(value.items[i])])
    ELSE IF value.t = "object"
    THEN Obj([key \in DOMAIN value.fields \ RemovedKeys |-> sanitizeSchema(value.fields[key])])
    ELSE value

(***************************************************************************)
(* State of the specifications of single components                        *)
(***************************************************************************)
VARIABLES
    sin,            \* sanitizer run: the schema given to sanitizeSchema
    sout            \* sanitizer run: the results of applying it once, twice

VARIABLES
    jobPostings,        \* BoardTab: the user's job postings, in the order they were added
    inputValue,         \* BoardTab: the text of the URL input
    isProcessing,       \* BoardTab: the isProcessing flag
    dialogOpen,         \* BoardTab: confirmDialogOpen, duplicateDialogOpen, noContentDialogOpen, limitDialogOpen
    pendingUrl,         \* BoardTab: pendingUrl, Null or a URL
    hasAnalysisCredits, \* BoardTab: hasAiCredits() as the client sees it
    calls,              \* BoardTab: the async handlers suspended at an await
    failedUrl,          \* BoardTab: the URL of the last analysis that ended with noContent
    submits             \* BoardTab: number of submit events so far

VARIABLES
    phone_verifications, \* the rows of public.phone_verifications
    verification         \* per user: the complete_phone_verification call in progress

VARIABLES
    tab,            \* Index: useParams().tab, "" on the root path
    activeTab,      \* Index: the activeTab state
    effectPending,  \* Index: the URL-sync effect has yet to run for the last render
    requested,      \* Index: the tab last asked for, by a tab change or by the URL
    events          \* Index: number of user events so far

schemaVars == <<sin, sout>>
phoneVars == <<phone_verifications, verification>>
indexVars == <<tab, activeTab, effectPending, requested, events>>
boardVars == <<jobPostings, inputValue, isProcessing, dialogOpen, pendingUrl, hasAnalysisCredits,
               calls, failedUrl, submits>>

NoSchema == Prim("none")
SchemaIdle == sin = NoSchema /\ sout = <<>>

Null == "null"
Dialogs == {"confirm", "duplicate", "noContent", "limit"}
BoardIdle ==
    /\ jobPostings = <<>>
    /\ inputValue = ""
    /\ isProcessing = FALSE
    /\ dialogOpen = [d \in Dialogs |-> FALSE]
    /\ pendingUrl = Null
    /\ hasAnalysisCredits = FALSE
    /\ calls = <<>>
    /\ failedUrl = Null
    /\ submits = 0

PhoneIdle == phone_verifications = {} /\ verification = <<>>
IndexIdle ==
    /\ tab = "" /\ activeTab = "" /\ effectPending = FALSE /\ requested = "" /\ events = 0

otherVars == <<schemaVars, boardVars, phoneVars, indexVars>>
OthersIdle == SchemaIdle /\ BoardIdle /\ PhoneIdle /\ IndexIdle

(***************************************************************************)
(* Bounds and constants of the analyze-job model                           *)
(***************************************************************************)
\* number of concurrent analyze-job requests of the one user
NumReqs == 2
\* largest initial ai_credits_remaining
MaxCredits == 1
\* largest number of parts in an answer given to normalizeGeminiToLovable
MaxParts == 2

\* if (!pageContent || pageContent.length < 100): fall back to the scraping API
ScrapeBelow == 100
\* if (!pageContent || pageContent.length < 50): no usable content
ContentBelow == 50
\* pageContent.substring(0, 15000)
AiContentBudget == 15000
\* length of the fixed text of the direct-fetch content template
\* "Title: " "\n\n" "Description: " "\n\n" "\n\n" "Content:\n"
TemplateLen == 35

Reqs == 1..NumReqs

(***************************************************************************)
(* Inputs and outcomes the environment chooses from                        *)
(***************************************************************************)
Url_wanted == <<"w","a","n","t","e","d",".","c","o",".","k","r","/","w","d","/","1","2","3","4","5">>
Url_linkedin == <<"w","w","w",".","l","i","n","k","e","d","i","n",".","c","o","m","/","j","o","b","s","/","v","i","e","w","/","1">>
Url_lookalike == <<"e","v","i","l","-","l","i","n","k","e","d","i","n",".","c","o","m",".","a","t","t","a","c","k","e","r",".","n","e","t">>
\* an allowlisted job board, with linkedin.com in its query string only
Url_referral == <<"w","a","n","t","e","d",".","c","o",".","k","r","/","?","n","e","x","t","=","l","i","n","k","e","d","i","n",".","c","o","m">>

\* total length of what the direct fetch extracts (title, description, JSON-LD, body)
ExtractedLens == {ScrapeBelow - TemplateLen - 1, ScrapeBelow - TemplateLen}
\* length of data.markdown in a successful scrape
MarkdownLens == {0, ContentBelow - 1, ContentBelow, AiContentBudget + 1}

\* request bodies: not JSON at all, or a JSON object with or without a url
Bodies ==
    { [json |-> FALSE, hasUrl |-> FALSE, url |-> <<>>],
      [json |-> TRUE, hasUrl |-> FALSE, url |-> <<>>] }
    \cup { [json |-> TRUE, hasUrl |-> TRUE, url |-> u] :
              u \in {<<>>, Url_wanted, Url_linkedin, Url_lookalike, Url_referral} }

\* replies of the scraping API: the call throws, or answers with an HTTP status,
\* a success flag, an error text and data.markdown
ScrapeReplies ==
    { [threw |-> TRUE, ok |-> FALSE, success |-> FALSE, unsupported |-> FALSE, markdown |-> 0],
      [threw |-> FALSE, ok |-> FALSE, success |-> FALSE, unsupported |-> TRUE, markdown |-> 0],
      [threw |-> FALSE, ok |-> TRUE, success |-> FALSE, unsupported |-> TRUE, markdown |-> 0],
      [threw |-> FALSE, ok |-> TRUE, success |-> FALSE, unsupported |-> FALSE, markdown |-> 0],
      [threw |-> FALSE, ok |-> FALSE, success |-> TRUE, unsupported |-> FALSE, markdown |-> 0] }
    \cup { [threw |-> FALSE, ok |-> TRUE, success |-> TRUE, unsupported |-> FALSE, markdown |-> m] :
              m \in MarkdownLens }

\* outcomes of the direct fetch: it throws (network error, 10 s abort), or answers
\* not-OK, or answers OK with HTML of which `extracted` characters are kept
DirectReplies ==
    { [threw |-> TRUE, ok |-> FALSE, extracted |-> 0],
      [threw |-> FALSE, ok |-> FALSE, extracted |-> 0] }
    \cup { [threw |-> FALSE, ok |-> TRUE, extracted |-> e] : e \in ExtractedLens }

\* Gemini response bodies
GeminiBodies ==
    { [parts |-> <<>>],
      [parts |-> <<TextPart(Prose)>>],
      [parts |-> <<FunctionCallPart(JObject("true"))>>],
      [parts |-> <<FunctionCallPart(JObject("false"))>>],
      [parts |-> <<FunctionCallPart(JString(Prose))>>] }

\* outcomes of the AI call: it throws, or answers with a status and, when OK, a
\* body that is JSON or not
AiReplies ==
    { [threw |-> TRUE, status |-> 0, json |-> FALSE, body |-> [parts |-> <<>>]] }
    \cup { [threw |-> FALSE, status |-> s, json |-> FALSE, body |-> [parts |-> <<>>]] :
              s \in {200, 402, 429, 500} }
    \cup { [threw |-> FALSE, status |-> 200, json |-> TRUE, body |-> b] : b \in GeminiBodies }

(***************************************************************************)
(* State                                                                   *)
(***************************************************************************)
VARIABLES
    vin,            \* validator run: the raw string given to validateUrl
    vout,           \* validator run: its result, NotValidated before the call
    ain,            \* adapter run: the chat payload and the provider's answer
    aout,           \* adapter run: the request built and the answer normalized
    row,            \* the user's user_subscriptions row, NoRow when there is none
    env,            \* which API keys the deployment has configured
    pc,             \* per request: the await the handler is suspended at
    subscription,   \* per request: the row as read by the select
    url,            \* per request: validationResult.data.url
    formattedUrl,   \* per request: urlValidation.url
    pageContent,    \* per request: length of pageContent
    inflight,       \* per request: the outbound HTTP request awaiting its response
    log,            \* per request: the calls issued so far, in order
    response,       \* per request: the Response returned, NoResponse before
    posting         \* per request: the job posting the client adds on success

urlVars == <<vin, vout>>
adapterVars == <<ain, aout>>
pureVars == <<vin, vout, ain, aout, otherVars>>
jobVars == <<row, env, pc, subscription, url, formattedUrl, pageContent, inflight, log, response,
             posting>>
vars == <<otherVars, vin, vout, ain, aout, row, env, pc, subscription, url, formattedUrl, pageContent, inflight,
          log, response, posting>>

NotValidated == [pending |-> TRUE]
NoAdapterInput == [given |-> FALSE]
NotAdapted == [pending |-> TRUE]
NoRow == [exists |-> FALSE]
NoSubscription == [read |-> FALSE]
NoResponse == [status |-> 0]
NoRequest == [kind |-> "none"]
NoCount == [t |-> "null"]

UrlIdle == vin = <<>> /\ vout = NotValidated
AdapterIdle == ain = NoAdapterInput /\ aout = NotAdapted

Idle ==
    /\ row = NoRow
    /\ env = [FIRECRAWL_API_KEY |-> TRUE, GEMINI_API_KEY |-> TRUE]
    /\ pc = [r \in Reqs |-> "done"]
    /\ subscription = [r \in Reqs |-> NoSubscription]
    /\ url = [r \in Reqs |-> <<>>]
    /\ formattedUrl = [r \in Reqs |-> <<>>]
    /\ pageContent = [r \in Reqs |-> 0]
    /\ inflight = [r \in Reqs |-> NoRequest]
    /\ log = [r \in Reqs |-> <<>>]
    /\ response = [r \in Reqs |-> NoResponse]
    /\ posting = [r \in Reqs |-> "none"]

(***************************************************************************)
(* SpecUrl: validateUrl applied to one input                               *)
(***************************************************************************)
InitUrl ==
    /\ vin \in {u \in UrlInputs : Len(u) \in 1..MaxUrlLen}
    /\ vout = NotValidated
    /\ ain = NoAdapterInput
    /\ aout = NotAdapted
    /\ OthersIdle
    /\ Idle

Validate ==
    /\ vout = NotValidated
    /\ vout' = validateUrl(vin)
    /\ UNCHANGED <<vin, adapterVars, jobVars, otherVars>>

NextUrl == Validate

SpecUrl == InitUrl /\ [][NextUrl]_vars

(***************************************************************************)
(* SpecAdapter: buildGeminiRequest applied to one chat payload and         *)
(* normalizeGeminiToLovable applied to one answer of the provider          *)
(***************************************************************************)
\* the values a part's args, arguments or parsed text can be
AdapterValues ==
    { JObject("true"), JObject("absent"), JNull, JString(Prose),
      JString(JsonStringify(JObject("true"))) }

AdapterTexts == {EmptyText, Prose} \cup {JsonStringify(v) : v \in AdapterValues}

AdapterParts ==
    {TextPart(t) : t \in AdapterTexts}
    \cup {FunctionCallOf(a, b) : a \in AdapterValues \cup {Undefined},
                                  b \in {Undefined, JString(Prose)}}

\* the provider's answers: up to MaxParts parts
AdapterBodies == UNION {[1..n -> AdapterParts] : n \in 0..MaxParts}

\* chat payloads: one tool, with the choice forced to a function, or left open
AdapterPayloads ==
    { [tools |-> {"extract_job_posting"}, tool_choice |-> c] :
         c \in {ForcedToolChoice("extract_job_posting"), ForcedToolChoice(""), NoToolChoice} }

InitAdapter ==
    /\ ain \in {[given |-> TRUE, payload |-> p, answer |-> [parts |-> b]] :
                   p \in AdapterPayloads, b \in AdapterBodies}
    /\ aout = NotAdapted
    /\ vin = <<>>
    /\ vout = NotValidated
    /\ OthersIdle
    /\ Idle

Adapt ==
    /\ aout = NotAdapted
    /\ aout' = [pending |-> FALSE,
                request |-> buildGeminiRequest(ain.payload),
                response |-> normalizeGeminiToLovable(ain.answer)]
    /\ UNCHANGED <<ain, urlVars, jobVars, otherVars>>

NextAdapter == Adapt

SpecAdapter == InitAdapter /\ [][NextAdapter]_vars

(***************************************************************************)
(* analyze-job: the decisions of the handler                               *)
(***************************************************************************)
Row(remaining, used) ==
    [exists |-> TRUE, ai_credits_remaining |-> remaining, ai_credits_used |-> used]

\* requestSchema: z.object({ url: z.string().min(1).max(2000) })
requestSchema(body) == body.hasUrl /\ Len(body.url) >= 1 /\ Len(body.url) <= MaxUrlLen

\* the credit test that lets a balance of 0 through: C2 has to tell it from HasNoCredits
HasNoCreditsBelowZero(sub) == sub.ai_credits_remaining < 0

\* subscription.ai_credits_remaining < 1
HasNoCredits(sub) == sub.ai_credits_remaining < 1

\* .eq('user_id', user.id).eq('ai_credits_remaining', subscription.ai_credits_remaining)
UpdateMatches(current, sub) ==
    current.exists /\ current.ai_credits_remaining = sub.ai_credits_remaining

\* an update that lowers the balance and leaves ai_credits_used alone: C26 has to
\* tell it from UpdatedRow
UpdatedRowRemainingOnly(sub) == Row(sub.ai_credits_remaining - 1, sub.ai_credits_used)

\* .update({ ai_credits_remaining: remaining - 1, ai_credits_used: (used || 0) + 1 })
UpdatedRow(sub) == Row(sub.ai_credits_remaining - 1, sub.ai_credits_used + 1)

\* count of the update's result: the client reports a count only for a call made
\* with a count option, and this call passes none, so count is null
ReportedCount(affected) == NoCount

\* if (creditError || updatedCount === 0)
DeductionFailed(creditError, updatedCount) ==
    creditError \/ updatedCount = [t |-> "number", n |-> 0]

\* formattedUrl.includes('linkedin.com')
IsLinkedIn(formatted) == Includes(formatted, S_linkedin)

\* a scrape of the raw input instead of the normalized URL: C7 has to tell it from ScrapeRequest
ScrapeRequestRaw(raw, formatted) == [kind |-> "scrape", target |-> raw, contentLen |-> 0]

\* fetch(formattedUrl, ...) and body: JSON.stringify({ url: formattedUrl, ... })
DirectFetchRequest(raw, formatted) == [kind |-> "direct", target |-> formatted, contentLen |-> 0]
ScrapeRequest(raw, formatted) == [kind |-> "scrape", target |-> formatted, contentLen |-> 0]

\* the whole content, uncut: C20 has to tell it from Substring15000
SubstringWhole(len) == len

\* pageContent.substring(0, 15000)
Substring15000(len) == IF len < AiContentBudget THEN len ELSE AiContentBudget
\* callGeminiFromLovable({ messages, tools: [extract_job_posting], tool_choice: forced })
ChatPayload(len) ==
    [contentLen |-> Substring15000(len),
     tools |-> {"extract_job_posting"},
     tool_choice |-> ForcedToolChoice("extract_job_posting")]
AiRequest(len) ==
    [kind |-> "ai", target |-> <<>>, contentLen |-> ChatPayload(len).contentLen,
     request |-> buildGeminiRequest(ChatPayload(len))]

\* pageContent after the direct fetch: '' unless the response was OK, else the
\* template filled with title, description, JSON-LD and body text
DirectContent(reply) ==
    IF reply.threw \/ ~reply.ok THEN 0 ELSE TemplateLen + reply.extracted

\* a fallback only for content under 50 characters: C18 has to tell it from NeedsScrape
NeedsScrapeBelowFifty(len) == len = 0 \/ len < ContentBelow

\* !pageContent || pageContent.length < 100
NeedsScrape(len) == len = 0 \/ len < ScrapeBelow
\* a test that stops empty content only: C19 has to tell it from ContentTooShort
ContentTooShortEmptyOnly(len) == len = 0

\* !pageContent || pageContent.length < 50
ContentTooShort(len) == len = 0 \/ len < ContentBelow

\* jobData out of the normalized AI response: null unless the first tool call has
\* non-empty arguments that parse as JSON
ExtractJobData(aiData) ==
    IF aiData.isNull \/ aiData.tool_calls = <<>> THEN JNull
    ELSE LET arguments == aiData.tool_calls[1].arguments
         IN  IF arguments.kind = "empty" THEN JNull
             ELSE IF JsonParse(arguments).ok THEN JsonParse(arguments).value
             ELSE JNull

\* a handler that answers with made-up data when nothing was extracted: C12 has to
\* tell it from ResultResponse
ResultResponseFabricating(jobData, sourceUrl) ==
    IF jobData.t = "object" /\ jobData.isJobPosting = "false" THEN NotJobPostingResponse
    ELSE SuccessResponse

\* if (!jobData) ...; if (jobData.isJobPosting === false) ...; else success
ResultResponse(jobData, sourceUrl) ==
    IF ~Truthy(jobData) THEN NoContentResponse
    ELSE IF jobData.t = "object" /\ jobData.isJobPosting = "false" THEN NotJobPostingResponse
    ELSE SuccessResponse

\* validateUrl(url) for the urls of the request bodies, computed once
urlValidations == {<<u, validateUrl(u)>> : u \in {b.url : b \in Bodies}}
urlValidationOf(u) == (CHOOSE p \in urlValidations : p[1] = u)[2]

Entry(op, affected) == [op |-> op, affected |-> affected]
Issued(r, op) == \E i \in 1..Len(log[r]) : log[r][i].op = op
Times(r, op) == Cardinality({i \in 1..Len(log[r]) : log[r][i].op = op})
Outbound == {"direct", "scrape", "ai"}

(***************************************************************************)
(* analyze-job: one action per continuation of the handler, that is, the   *)
(* code run between two awaits                                             *)
(***************************************************************************)
\* return new Response(...): the invocation ends; its locals, and the record of
\* the calls it made, are gone
Return(r, resp) ==
    /\ pc' = [pc EXCEPT ![r] = "done"]
    /\ response' = [response EXCEPT ![r] = resp]
    /\ log' = [log EXCEPT ![r] = <<>>]
    /\ subscription' = [subscription EXCEPT ![r] = NoSubscription]
    /\ url' = [url EXCEPT ![r] = <<>>]
    /\ formattedUrl' = [formattedUrl EXCEPT ![r] = <<>>]
    /\ pageContent' = [pageContent EXCEPT ![r] = 0]
    /\ inflight' = [inflight EXCEPT ![r] = NoRequest]

\* await fetch(...) or await callGeminiFromLovable(...): the request goes out
Send(r, request, len) ==
    /\ pc' = [pc EXCEPT ![r] = request.kind]
    /\ inflight' = [inflight EXCEPT ![r] = request]
    /\ pageContent' = [pageContent EXCEPT ![r] = len]
    /\ log' = [log EXCEPT ![r] = Append(@, Entry(request.kind, 0))]
    /\ UNCHANGED <<response, subscription>>

\* the request arrives: OPTIONS, missing Authorization header, or on to getUser
Receive(r) ==
    /\ pc[r] = "start"
    /\ \E method \in {"OPTIONS", "POST"}, authHeader \in BOOLEAN :
         IF method = "OPTIONS" THEN Return(r, OptionsResponse)
         ELSE IF ~authHeader THEN Return(r, NoAuthHeaderResponse)
         ELSE /\ pc' = [pc EXCEPT ![r] = "getUser"]
              /\ log' = [log EXCEPT ![r] = Append(@, Entry("getUser", 0))]
              /\ UNCHANGED <<response, subscription, url, formattedUrl, pageContent, inflight>>
    /\ UNCHANGED <<row, env, pureVars, posting>>

\* supabaseClient.auth.getUser() answers
GetUser(r) ==
    /\ pc[r] = "getUser"
    /\ \E user \in BOOLEAN :
         IF ~user THEN Return(r, AuthErrorResponse)
         ELSE /\ pc' = [pc EXCEPT ![r] = "select"]
              /\ UNCHANGED <<response, subscription, url, formattedUrl, pageContent, inflight, log>>
    /\ UNCHANGED <<row, env, pureVars, posting>>

\* the select on user_subscriptions runs and answers
SelectSubscription(r) ==
    /\ pc[r] = "select"
    /\ \E subError \in BOOLEAN :
         IF subError \/ ~row.exists THEN Return(r, NoSubscriptionResponse)
         ELSE IF HasNoCredits(row) THEN Return(r, NoCreditsResponse)
         ELSE /\ pc' = [pc EXCEPT ![r] = "update"]
              /\ subscription' = [subscription EXCEPT ![r] = row]
              /\ log' = [log EXCEPT ![r] = Append(@, Entry("select", 0))]
              /\ UNCHANGED <<response, url, formattedUrl, pageContent, inflight>>
    /\ UNCHANGED <<row, env, pureVars, posting>>

\* the conditional update runs and answers; subscription is not read afterwards
UpdateCredits(r) ==
    /\ pc[r] = "update"
    /\ \E creditError \in BOOLEAN :
         LET sub      == subscription[r]
             affected == IF ~creditError /\ UpdateMatches(row, sub) THEN 1 ELSE 0
         IN  /\ row' = IF affected = 1 THEN UpdatedRow(sub) ELSE row
             /\ IF DeductionFailed(creditError, ReportedCount(affected))
                THEN Return(r, CreditConflictResponse)
                ELSE /\ pc' = [pc EXCEPT ![r] = "body"]
                     /\ log' = [log EXCEPT ![r] = Append(@, Entry("update", affected))]
                     /\ subscription' = [subscription EXCEPT ![r] = NoSubscription]
                     /\ UNCHANGED <<response, url, formattedUrl, pageContent, inflight>>
    /\ UNCHANGED <<env, pureVars, posting>>

\* req.json() answers: schema, validateUrl, API keys, then the first fetch
ParseBody(r) ==
    /\ pc[r] = "body"
    /\ \E body \in Bodies :
         IF ~body.json THEN Return(r, CatchAllResponse(BodyNotJson))
         ELSE IF ~requestSchema(body) THEN Return(r, SchemaErrorResponse)
         ELSE LET urlValidation == urlValidationOf(body.url)
              IN  IF ~urlValidation.valid
                  THEN Return(r, UrlRejectedResponse(urlValidation.error))
                  ELSE IF ~env.FIRECRAWL_API_KEY
                  THEN Return(r, NoFirecrawlKeyResponse)
                  ELSE IF ~env.GEMINI_API_KEY
                  THEN Return(r, NoGeminiKeyResponse)
                  ELSE /\ url' = [url EXCEPT ![r] = body.url]
                       /\ formattedUrl' = [formattedUrl EXCEPT ![r] = urlValidation.url]
                       /\ IF IsLinkedIn(urlValidation.url)
                          THEN Send(r, DirectFetchRequest(body.url, urlValidation.url), 0)
                          ELSE Send(r, ScrapeRequest(body.url, urlValidation.url), 0)
    /\ UNCHANGED <<row, env, pureVars, posting>>

\* the direct fetch settles with `reply`: it threw or timed out, answered not-OK,
\* or answered OK with HTML from which `extracted` characters were taken
DirectFetchSettlesWith(r, reply) ==
    /\ pc[r] = "direct"
    /\ LET content == DirectContent(reply)
       IN  IF NeedsScrape(content)
           THEN /\ Send(r, ScrapeRequest(url[r], formattedUrl[r]), content)
                /\ UNCHANGED <<url, formattedUrl>>
           ELSE IF ContentTooShort(content)
           THEN Return(r, ContentTooShortResponse)
           ELSE /\ Send(r, AiRequest(content), content)
                /\ UNCHANGED <<url, formattedUrl>>
    /\ UNCHANGED <<row, env, pureVars, posting>>

DirectFetchSettles(r) == \E reply \in DirectReplies : DirectFetchSettlesWith(r, reply)

\* a handler that scrapes a second time when the scraping API fails: C16 has to
\* tell it from ScrapeSettlesWith
ScrapeSettlesWithRetry(r, reply) ==
    /\ pc[r] = "scrape"
    /\ IF reply.threw THEN Return(r, CatchAllResponse(ScrapeThrew))
       ELSE IF ~reply.ok \/ ~reply.success
       THEN IF Times(r, "scrape") < 2
            THEN /\ Send(r, ScrapeRequest(url[r], formattedUrl[r]), pageContent[r])
                 /\ UNCHANGED <<url, formattedUrl>>
            ELSE Return(r, ScrapeFailedResponse)
       ELSE IF ContentTooShort(reply.markdown)
       THEN Return(r, ContentTooShortResponse)
       ELSE /\ Send(r, AiRequest(reply.markdown), reply.markdown)
            /\ UNCHANGED <<url, formattedUrl>>
    /\ UNCHANGED <<row, env, pureVars, posting>>

\* the scraping API settles with `reply`
ScrapeSettlesWith(r, reply) ==
    /\ pc[r] = "scrape"
    /\ IF reply.threw THEN Return(r, CatchAllResponse(ScrapeThrew))
       ELSE IF ~reply.ok \/ ~reply.success
       THEN IF reply.unsupported
            THEN Return(r, UnsupportedSiteResponse)
            ELSE Return(r, ScrapeFailedResponse)
       ELSE IF ContentTooShort(reply.markdown)
       THEN Return(r, ContentTooShortResponse)
       ELSE /\ Send(r, AiRequest(reply.markdown), reply.markdown)
            /\ UNCHANGED <<url, formattedUrl>>
    /\ UNCHANGED <<row, env, pureVars, posting>>

ScrapeSettles(r) == \E reply \in ScrapeReplies : ScrapeSettlesWith(r, reply)

\* a handler that gives the credit back when the AI call fails: C27 has to tell it
\* from AiSettlesWith
AiSettlesWithRefund(r, reply) ==
    /\ pc[r] = "ai"
    /\ IF reply.threw \/ reply.status # 200 \/ ~reply.json
       THEN /\ Return(r, AiFailedResponse)
            /\ row' = Row(row.ai_credits_remaining + 1, row.ai_credits_used - 1)
       ELSE /\ Return(r, SuccessResponse)
            /\ row' = row
    /\ UNCHANGED <<env, pureVars, posting>>

\* the normalized AI response of a reply that was OK and JSON
AiData(reply) == normalizeGeminiToLovable(reply.body)

\* the AI call settles with `reply`: status, body, normalizeGeminiToLovable, JSON.parse
AiSettlesWith(r, reply) ==
    /\ pc[r] = "ai"
    /\ IF reply.threw THEN Return(r, CatchAllResponse(AiThrew))
       ELSE IF reply.status # 200
       THEN IF reply.status = 429 THEN Return(r, AiRateLimitedResponse)
            ELSE IF reply.status = 402 THEN Return(r, AiPaymentResponse)
            ELSE Return(r, AiFailedResponse)
       ELSE IF ~reply.json THEN Return(r, CatchAllResponse(AiThrew))
       ELSE Return(r, ResultResponse(ExtractJobData(AiData(reply)), url[r]))
    /\ UNCHANGED <<row, env, pureVars, posting>>

AiSettles(r) == \E reply \in AiReplies : AiSettlesWith(r, reply)

(***************************************************************************)
(* BoardTab.processJobUrl: the client of analyze-job                       *)
(***************************************************************************)
\* a client that takes every response for a result: C13 has to tell it from AnalyzeSucceeds
AnalyzeSucceedsAlways(resp) == resp.status # 0

\* analyzeJobUrl returns data.data: functions.invoke reported no error (a 2xx
\* status) and data.success is truthy; otherwise it throws
AnalyzeSucceeds(resp) ==
    /\ resp.status >= 200 /\ resp.status < 300
    /\ resp.body = "json"
    /\ resp.success

\* a client that submits the URL again when the analysis failed: C15 has to tell
\* it from ProcessJobUrl
ProcessJobUrlRetrying(r) ==
    /\ pc[r] = "done"
    /\ posting[r] = "none"
    /\ IF AnalyzeSucceeds(response[r])
       THEN /\ posting' = [posting EXCEPT ![r] = "adding"]
            /\ UNCHANGED <<pc, response>>
       ELSE /\ pc' = [pc EXCEPT ![r] = "start"]
            /\ response' = [response EXCEPT ![r] = NoResponse]
            /\ UNCHANGED posting
    /\ UNCHANGED <<row, env, subscription, url, formattedUrl, pageContent, inflight, log, pureVars>>

\* processJobUrl resumes after `await analyzeJobUrl(url)` with jobData and calls
\* addJobPosting; when analyzeJobUrl threw it adds nothing
ProcessJobUrl(r) ==
    /\ pc[r] = "done"
    /\ posting[r] = "none"
    /\ AnalyzeSucceeds(response[r])
    /\ posting' = [posting EXCEPT ![r] = "adding"]
    /\ UNCHANGED <<row, env, pc, subscription, url, formattedUrl, pageContent, inflight, log,
                   response, pureVars>>

\* addJobPosting settles: the posting is stored, or the insert failed
AddJobPostingSettles(r) ==
    /\ posting[r] = "adding"
    /\ \E stored \in BOOLEAN :
         posting' = [posting EXCEPT ![r] = IF stored THEN "added" ELSE "failed"]
    /\ UNCHANGED <<row, env, pc, subscription, url, formattedUrl, pageContent, inflight, log,
                   response, pureVars>>

(***************************************************************************)
(* Spec: NumReqs concurrent analyze-job requests of one user               *)
(***************************************************************************)
Init ==
    /\ vin = <<>>
    /\ vout = NotValidated
    /\ ain = NoAdapterInput
    /\ aout = NotAdapted
    /\ OthersIdle
    /\ row \in {NoRow} \cup {Row(n, 0) : n \in 0..MaxCredits}
    /\ env \in [FIRECRAWL_API_KEY : BOOLEAN, GEMINI_API_KEY : BOOLEAN]
    /\ pc = [r \in Reqs |-> "start"]
    /\ subscription = [r \in Reqs |-> NoSubscription]
    /\ url = [r \in Reqs |-> <<>>]
    /\ formattedUrl = [r \in Reqs |-> <<>>]
    /\ pageContent = [r \in Reqs |-> 0]
    /\ inflight = [r \in Reqs |-> NoRequest]
    /\ log = [r \in Reqs |-> <<>>]
    /\ response = [r \in Reqs |-> NoResponse]
    /\ posting = [r \in Reqs |-> "none"]

Next ==
    \/ \E r \in Reqs : Receive(r)
    \/ \E r \in Reqs : GetUser(r)
    \/ \E r \in Reqs : SelectSubscription(r)
    \/ \E r \in Reqs : UpdateCredits(r)
    \/ \E r \in Reqs : ParseBody(r)
    \/ \E r \in Reqs : DirectFetchSettles(r)
    \/ \E r \in Reqs : ScrapeSettles(r)
    \/ \E r \in Reqs : AiSettles(r)
    \/ \E r \in Reqs : ProcessJobUrl(r)
    \/ \E r \in Reqs : AddJobPostingSettles(r)

Spec == Init /\ [][Next]_vars


\* whichever continuation of request r, or of its client, is ready to run
Resume(r) ==
    \/ Receive(r)
    \/ GetUser(r)
    \/ SelectSubscription(r)
    \/ UpdateCredits(r)
    \/ ParseBody(r)
    \/ DirectFetchSettles(r)
    \/ ScrapeSettles(r)
    \/ AiSettles(r)
    \/ ProcessJobUrl(r)
    \/ AddJobPostingSettles(r)

\* Spec, given that each awaited call settles: the runtime resumes every
\* continuation whose await has settled
SpecFair == Spec /\ \A r \in Reqs : WF_vars(Resume(r))


(***************************************************************************)
(* SpecSchema: sanitizeSchema applied to one schema, and to its own result *)
(***************************************************************************)
SchemaKeys == {"type", "nullable", "additionalProperties"}
SchemaPrims == {Prim("string"), Prim("true")}

\* objects whose values are primitives, arrays of primitives, and primitives
FlatSchemas ==
    SchemaPrims
    \cup {Arr(<<>>), Arr(<<Prim("string")>>)}
    \cup UNION {{Obj(f) : f \in [keys -> SchemaPrims]} : keys \in SUBSET SchemaKeys}

\* the ways a schema is nested in a larger one
Wrappers(v) ==
    { Obj([properties |-> v]),
      Obj([nullable |-> v]),
      Obj([type |-> Prim("object"), additionalProperties |-> v]),
      Obj([type |-> Prim("array"), nullable |-> Prim("true"), items |-> v]),
      Arr(<<v>>),
      Arr(<<Prim("string"), v>>) }

RECURSIVE NestedSchemas(_)
NestedSchemas(depth) ==
    IF depth = 0 THEN FlatSchemas
    ELSE LET inner == NestedSchemas(depth - 1)
         IN  inner \cup UNION {Wrappers(v) : v \in inner}

InitSchema ==
    /\ sin \in NestedSchemas(MaxDepth)
    /\ sout = <<>>
    /\ BoardIdle /\ PhoneIdle /\ IndexIdle
    /\ UrlIdle /\ AdapterIdle /\ Idle

Sanitize ==
    /\ Len(sout) < 2
    /\ sout' = Append(sout, sanitizeSchema(IF sout = <<>> THEN sin ELSE sout[Len(sout)]))
    /\ UNCHANGED <<sin, boardVars, phoneVars, indexVars, urlVars, adapterVars, jobVars>>

NextSchema == Sanitize

SpecSchema == InitSchema /\ [][NextSchema]_vars

(***************************************************************************)
(* SpecBoard: the URL form of BoardTab, its four dialogs and the async     *)
(* handlers behind them                                                    *)
(***************************************************************************)
\* canAddJob(n): fewer postings than the plan's job limit
JobLimit == 2
\* handlers that may be suspended at an await at the same time
MaxCalls == 2
\* submit events of one run
MaxSubmits == 3

Input_blank == "  "
Input_words == "hello world"
Input_jobUrl == "https://acme.com/careers/1"
Input_plainUrl == "https://acme.com/about"
BoardInputs == {"", Input_blank, Input_words, Input_jobUrl, Input_plainUrl}

\* inputValue.trim()
Trimmed(text) == IF text = Input_blank THEN "" ELSE text
\* isUrl(text): new URL(text) succeeds or the pattern matches
isUrl(text) == text \in {Input_jobUrl, Input_plainUrl}
\* isLikelyJobUrl(url): the lower-cased URL contains one of JOB_URL_KEYWORDS
isLikelyJobUrl(text) == text = Input_jobUrl

STATUS_ORDER ==
    {"reviewing", "applied", "interview", "offer", "accepted", "rejected-docs",
     "rejected-interview", "closed"}

\* the posting processJobUrl passes to addJobPosting
AnalyzedPosting(sourceUrl) ==
    [sourceUrl |-> sourceUrl, status |-> "reviewing", priority |-> 0,
     companyScore |-> 0, fitScore |-> 0, manual |-> FALSE]
\* the posting handleNoContentConfirm passes to addJobPosting
ManualPosting(sourceUrl) ==
    [sourceUrl |-> sourceUrl, status |-> "reviewing", priority |-> 0,
     companyScore |-> 0, fitScore |-> 0, manual |-> TRUE]

\* addJobPosting, when it succeeds: the posting joins the list as given
addJobPosting(list, p) == Append(list, p)

canAddJob(n) == n < JobLimit
isAtJobLimit == ~canAddJob(Len(jobPostings))
findExistingJobByUrl(text) == \E i \in 1..Len(jobPostings) : jobPostings[i].sourceUrl = text

AnyDialogOpen == \E d \in Dialogs : dialogOpen[d]
Open(d) == [dialogOpen EXCEPT ![d] = TRUE]
Close(d) == [dialogOpen EXCEPT ![d] = FALSE]

\* a handler suspended at an await: in processJobUrl at analyzeJobUrl or at
\* addJobPosting, called from `via`; or in handleNoContentConfirm at addJobPosting
Call(text, via, at) == [url |-> text, via |-> via, at |-> at]
InFlight == {c \in 1..Len(calls) : calls[c].at = "analyze"}
Without(c) == [i \in 1..(Len(calls) - 1) |-> IF i < c THEN calls[i] ELSE calls[i + 1]]

\* what the caller of processJobUrl does when it returns: the dialog handlers
\* run setPendingUrl(null), handleSubmit does nothing
AfterProcess(via, pending) == IF via = "submit" THEN pending ELSE Null

\* processJobUrl(url) up to its first await, called from `via` with the dialogs
\* left as `open`
processJobUrl(text, via, open) ==
    IF ~hasAnalysisCredits
    THEN /\ pendingUrl' = AfterProcess(via, pendingUrl)
         /\ dialogOpen' = open
         /\ UNCHANGED <<jobPostings, inputValue, isProcessing, calls, failedUrl>>
    ELSE /\ Len(calls) < MaxCalls
         /\ isProcessing' = TRUE
         /\ calls' = Append(calls, Call(text, via, "analyze"))
         /\ pendingUrl' = pendingUrl
         /\ dialogOpen' = open
         /\ UNCHANGED <<jobPostings, inputValue, failedUrl>>

InitBoard ==
    /\ jobPostings = <<>>
    /\ inputValue = ""
    /\ isProcessing = FALSE
    /\ dialogOpen = [d \in Dialogs |-> FALSE]
    /\ pendingUrl = Null
    /\ hasAnalysisCredits \in BOOLEAN
    /\ calls = <<>>
    /\ failedUrl = Null
    /\ submits = 0
    /\ SchemaIdle /\ PhoneIdle /\ IndexIdle
    /\ UrlIdle /\ AdapterIdle /\ Idle

boardRest == <<schemaVars, phoneVars, indexVars, vin, vout, ain, aout, jobVars>>

\* the user edits the input; it is disabled while processing, and a dialog is modal
Type(text) ==
    /\ ~isProcessing /\ ~AnyDialogOpen
    /\ text # inputValue
    /\ inputValue' = text
    /\ UNCHANGED <<jobPostings, isProcessing, dialogOpen, pendingUrl, hasAnalysisCredits, calls,
                   failedUrl, submits, boardRest>>

\* a handleSubmit that does not look at isProcessing: C30 has to tell it from
\* the one below
handleSubmitWhileProcessing ==
    /\ ~AnyDialogOpen
    /\ submits < MaxSubmits
    /\ submits' = submits + 1
    /\ LET urlToAnalyze == Trimmed(inputValue)
       IN  IF urlToAnalyze = "" \/ ~isUrl(urlToAnalyze)
           THEN UNCHANGED <<jobPostings, inputValue, isProcessing, dialogOpen, pendingUrl, calls,
                            failedUrl>>
           ELSE IF isAtJobLimit \/ findExistingJobByUrl(urlToAnalyze)
                   \/ ~isLikelyJobUrl(urlToAnalyze)
           THEN /\ pendingUrl' = urlToAnalyze
                /\ dialogOpen' = Open(IF isAtJobLimit THEN "limit"
                                      ELSE IF findExistingJobByUrl(urlToAnalyze) THEN "duplicate"
                                      ELSE "confirm")
                /\ UNCHANGED <<jobPostings, inputValue, isProcessing, calls, failedUrl>>
           ELSE processJobUrl(urlToAnalyze, "submit", dialogOpen)
    /\ UNCHANGED <<hasAnalysisCredits, boardRest>>

\* handleSubmit: the form's onSubmit
handleSubmit ==
    /\ ~AnyDialogOpen
    /\ submits < MaxSubmits
    /\ submits' = submits + 1
    /\ LET urlToAnalyze == Trimmed(inputValue)
       IN  IF urlToAnalyze = "" \/ isProcessing \/ ~isUrl(urlToAnalyze)
           THEN UNCHANGED <<jobPostings, inputValue, isProcessing, dialogOpen, pendingUrl, calls,
                            failedUrl>>
           ELSE IF isAtJobLimit \/ findExistingJobByUrl(urlToAnalyze)
                   \/ ~isLikelyJobUrl(urlToAnalyze)
           THEN /\ pendingUrl' = urlToAnalyze
                /\ dialogOpen' = Open(IF isAtJobLimit THEN "limit"
                                      ELSE IF findExistingJobByUrl(urlToAnalyze) THEN "duplicate"
                                      ELSE "confirm")
                /\ UNCHANGED <<jobPostings, inputValue, isProcessing, calls, failedUrl>>
           ELSE processJobUrl(urlToAnalyze, "submit", dialogOpen)
    /\ UNCHANGED <<hasAnalysisCredits, boardRest>>

\* handleConfirmJobUrl (d = "confirm") and handleDuplicateConfirm (d = "duplicate")
handleConfirm(d) ==
    /\ dialogOpen[d]
    /\ IF pendingUrl # Null
       THEN processJobUrl(pendingUrl, d, Close(d))
       ELSE /\ dialogOpen' = Close(d)
            /\ UNCHANGED <<jobPostings, inputValue, isProcessing, pendingUrl, calls, failedUrl>>
    /\ UNCHANGED <<hasAnalysisCredits, submits, boardRest>>

\* handleCancelJobUrl, handleDuplicateCancel, handleNoContentCancel and the
\* limit dialog's close button
handleCancel(d) ==
    /\ dialogOpen[d]
    /\ dialogOpen' = Close(d)
    /\ pendingUrl' = Null
    /\ UNCHANGED <<jobPostings, inputValue, isProcessing, hasAnalysisCredits, calls, failedUrl,
                   submits, boardRest>>

\* onOpenChange(false): the dialog is dismissed with the Escape key
Dismiss(d) ==
    /\ dialogOpen[d]
    /\ dialogOpen' = Close(d)
    /\ UNCHANGED <<jobPostings, inputValue, isProcessing, pendingUrl, hasAnalysisCredits, calls,
                   failedUrl, submits, boardRest>>

\* analyzeJobUrl settles in processJobUrl: with the job data, with the noContent
\* message, or with another error
AnalyzeSettles(c, outcome) ==
    /\ c \in InFlight
    /\ IF outcome = "ok"
       THEN /\ calls' = [calls EXCEPT ![c].at = "add"]
            /\ UNCHANGED <<jobPostings, inputValue, isProcessing, dialogOpen, pendingUrl,
                           failedUrl>>
       ELSE /\ calls' = Without(c)
            /\ isProcessing' = FALSE
            /\ inputValue' = ""
            /\ IF outcome = "noContent"
               THEN /\ pendingUrl' = AfterProcess(calls[c].via, calls[c].url)
                    /\ dialogOpen' = Open("noContent")
                    /\ failedUrl' = calls[c].url
               ELSE /\ pendingUrl' = AfterProcess(calls[c].via, pendingUrl)
                    /\ UNCHANGED <<dialogOpen, failedUrl>>
            /\ UNCHANGED jobPostings
    /\ UNCHANGED <<hasAnalysisCredits, submits, boardRest>>

\* addJobPosting settles in processJobUrl: the posting is added, or it throws
AddSettles(c, ok) ==
    /\ c \in 1..Len(calls)
    /\ calls[c].at = "add"
    /\ calls' = Without(c)
    /\ jobPostings' = IF ok THEN addJobPosting(jobPostings, AnalyzedPosting(calls[c].url))
                      ELSE jobPostings
    /\ isProcessing' = FALSE
    /\ inputValue' = ""
    /\ pendingUrl' = AfterProcess(calls[c].via, pendingUrl)
    /\ UNCHANGED <<dialogOpen, hasAnalysisCredits, failedUrl, submits, boardRest>>

\* handleNoContentConfirm up to its await
handleNoContentConfirm ==
    /\ dialogOpen["noContent"]
    /\ dialogOpen' = Close("noContent")
    /\ IF pendingUrl # Null
       THEN /\ Len(calls) < MaxCalls
            /\ calls' = Append(calls, Call(pendingUrl, "noContent", "addManual"))
       ELSE calls' = calls
    /\ UNCHANGED <<jobPostings, inputValue, isProcessing, pendingUrl, hasAnalysisCredits,
                   failedUrl, submits, boardRest>>

\* addJobPosting settles in handleNoContentConfirm; when it throws, the rest of
\* the handler is skipped
ManualAddSettles(c, ok) ==
    /\ c \in 1..Len(calls)
    /\ calls[c].at = "addManual"
    /\ calls' = Without(c)
    /\ IF ok
       THEN /\ jobPostings' = addJobPosting(jobPostings, ManualPosting(calls[c].url))
            /\ inputValue' = ""
            /\ pendingUrl' = Null
       ELSE UNCHANGED <<jobPostings, inputValue, pendingUrl>>
    /\ UNCHANGED <<isProcessing, dialogOpen, hasAnalysisCredits, failedUrl, submits, boardRest>>

NextBoard ==
    \/ \E text \in BoardInputs : Type(text)
    \/ handleSubmit
    \/ \E d \in {"confirm", "duplicate"} : handleConfirm(d)
    \/ \E d \in Dialogs : handleCancel(d)
    \/ \E d \in Dialogs : Dismiss(d)
    \/ \E c \in 1..MaxCalls, outcome \in {"ok", "noContent", "error"} : AnalyzeSettles(c, outcome)
    \/ \E c \in 1..MaxCalls, ok \in BOOLEAN : AddSettles(c, ok)
    \/ handleNoContentConfirm
    \/ \E c \in 1..MaxCalls, ok \in BOOLEAN : ManualAddSettles(c, ok)

SpecBoard == InitBoard /\ [][NextBoard]_vars

(***************************************************************************)
(* SpecPriority: the score handlers of JobDetailDialog, for the posting    *)
(* shown in the dialog among the user's other postings                     *)
(***************************************************************************)
\* largest number of postings in the list
MaxJobs == 5
\* the score buttons 1..5, and 0 for no score
MaxScore == 5
ScoreRange == 0..MaxScore

\* twice the average (comp + fit) / count of the scores that are > 0, and 0 for none
Average2(comp, fit) ==
    LET count == (IF comp > 0 THEN 1 ELSE 0) + (IF fit > 0 THEN 1 ELSE 0)
    IN  IF count = 0 THEN 0 ELSE IF count = 2 THEN comp + fit ELSE 2 * (comp + fit)

IsPositive(s) == s > 0

\* jobPostings.filter(scored).map(average).filter((s) => s > 0)
AllScores(list) ==
    SelectSeq([i \in 1..Len(list) |-> Average2(list[i].companyScore, list[i].fitScore)],
              IsPositive)

\* insert s into a sequence sorted in descending order
RECURSIVE InsertDesc(_, _)
InsertDesc(seq, s) ==
    IF seq = <<>> THEN <<s>>
    ELSE IF s >= Head(seq) THEN <<s>> \o seq
    ELSE <<Head(seq)>> \o InsertDesc(Tail(seq), s)

\* seq.sort((a, b) => b - a)
RECURSIVE SortDescending(_)
SortDescending(seq) ==
    IF seq = <<>> THEN <<>> ELSE InsertDesc(SortDescending(Tail(seq)), Head(seq))

\* seq.indexOf(x), 0-indexed, for an x that occurs
IndexOf(seq, x) == (CHOOSE i \in 1..Len(seq) : seq[i] = x /\ \A j \in 1..(i - 1) : seq[j] # x) - 1

\* the buckets of the two branches; s is twice the score
AbsoluteBucket(s) ==
    IF s >= 8 THEN 1 ELSE IF s >= 6 THEN 2 ELSE IF s >= 4 THEN 3 ELSE IF s >= 2 THEN 4 ELSE 5
\* rank / totalJobs < 0.2, 0.4, 0.6, 0.8
PercentileBucket(rank, totalJobs) ==
    IF 5 * rank < totalJobs THEN 1
    ELSE IF 5 * rank < 2 * totalJobs THEN 2
    ELSE IF 5 * rank < 3 * totalJobs THEN 3
    ELSE IF 5 * rank < 4 * totalJobs THEN 4
    ELSE 5

\* calculateRelativePriority(compScore, fitScoreVal), with jobPostings as `list`
calculateRelativePriority(list, compScore, fitScoreVal) ==
    LET allScores == AllScores(list)
        thisScore == Average2(compScore, fitScoreVal)
        IsOther(s) == s # thisScore
        allWithThis == SortDescending(Append(SelectSeq(allScores, IsOther), thisScore))
        totalJobs == Len(allWithThis)
    IN  IF thisScore = 0 \/ allScores = <<>> THEN 3
        ELSE IF totalJobs = 1 THEN AbsoluteBucket(thisScore)
        ELSE PercentileBucket(IndexOf(allWithThis, thisScore), totalJobs)

\* updateJobPosting(id, fields), for the fields the model has
updateJobPosting(list, i, companyScore, fitScore, priority) ==
    [list EXCEPT ![i].companyScore = companyScore, ![i].fitScore = fitScore,
                 ![i].priority = priority]

\* updatePriorityRelative(compScore, fitScoreVal): the priority the posting ends with
updatePriorityRelative(list, i, compScore, fitScoreVal) ==
    IF compScore = 0 /\ fitScoreVal = 0 THEN list[i].priority
    ELSE calculateRelativePriority(list, compScore, fitScoreVal)

\* a posting another session left behind: scored, with a priority chosen by hand
ScoredPosting(k) ==
    [sourceUrl |-> Input_jobUrl, status |-> "reviewing", priority |-> 3,
     companyScore |-> k, fitScore |-> IF k = 2 THEN 3 ELSE 0, manual |-> FALSE]

\* the other postings: of each score 0..MaxScore some number, in that order
RECURSIVE OtherPostings(_, _)
OtherPostings(k, n) ==
    IF k > MaxScore THEN {<<>>}
    ELSE { [i \in 1..m |-> ScoredPosting(k)] \o rest :
              m \in 0..n, rest \in OtherPostings(k + 1, n) }

\* the posting shown in the dialog is the first of the list
InitPriority ==
    /\ jobPostings \in { <<AnalyzedPosting(Input_jobUrl)>> \o others :
                            others \in {o \in OtherPostings(0, MaxJobs - 1) :
                                           Len(o) <= MaxJobs - 1} }
    /\ inputValue = ""
    /\ isProcessing = FALSE
    /\ dialogOpen = [d \in Dialogs |-> FALSE]
    /\ pendingUrl = Null
    /\ hasAnalysisCredits = FALSE
    /\ calls = <<>>
    /\ failedUrl = Null
    /\ submits = 0
    /\ SchemaIdle /\ PhoneIdle /\ IndexIdle
    /\ UrlIdle /\ AdapterIdle /\ Idle

\* handleCompanyCriteriaScoreChange: the rounded average of the criteria becomes avg
handleCompanyCriteriaScoreChange(avg) ==
    /\ jobPostings' = updateJobPosting(jobPostings, 1, avg, jobPostings[1].fitScore,
                          updatePriorityRelative(jobPostings, 1, avg, jobPostings[1].fitScore))
    /\ UNCHANGED <<inputValue, isProcessing, dialogOpen, pendingUrl, hasAnalysisCredits, calls,
                   failedUrl, submits, boardRest>>

\* handleKeyCompetencyScoreChange, handleAIEvaluated: the rounded average becomes avg
handleKeyCompetencyScoreChange(avg) ==
    /\ jobPostings' = updateJobPosting(jobPostings, 1, jobPostings[1].companyScore, avg,
                          updatePriorityRelative(jobPostings, 1, jobPostings[1].companyScore, avg))
    /\ UNCHANGED <<inputValue, isProcessing, dialogOpen, pendingUrl, hasAnalysisCredits, calls,
                   failedUrl, submits, boardRest>>

NextPriority ==
    \/ \E avg \in ScoreRange : handleCompanyCriteriaScoreChange(avg)
    \/ \E avg \in ScoreRange : handleKeyCompetencyScoreChange(avg)

SpecPriority == InitPriority /\ [][NextPriority]_vars

(***************************************************************************)
(* SpecPhone: concurrent complete_phone_verification calls                 *)
(***************************************************************************)
\* users calling complete_phone_verification
NumUsers == 2
\* calls of one user
MaxVerifications == 2

Users == 1..NumUsers
Phones == {"010-1111", "010-2222"}

PhoneRow(uid, phone) == [user_id |-> uid, phone_number |-> phone]

\* IF EXISTS (SELECT 1 FROM phone_verifications
\*            WHERE phone_number = phone AND user_id != auth.uid())
UsedByOther(rows, uid, phone) ==
    \E r \in rows : r.phone_number = phone /\ r.user_id # uid

\* the same statement on a table without UNIQUE(phone_number): C25 has to tell it
\* from InsertOnConflict
InsertOnConflictNoPhoneKey(rows, uid, phone) ==
    [ok |-> TRUE, rows |-> {r \in rows : r.user_id # uid} \cup {PhoneRow(uid, phone)}]

\* INSERT ... VALUES (auth.uid(), phone) ON CONFLICT (user_id) DO UPDATE SET
\* phone_number = phone, under UNIQUE(user_id) and UNIQUE(phone_number): the
\* user's row is written, or the statement raises unique_violation
InsertOnConflict(rows, uid, phone) ==
    IF UsedByOther(rows, uid, phone)
    THEN [ok |-> FALSE, rows |-> rows]
    ELSE [ok |-> TRUE, rows |-> {r \in rows : r.user_id # uid} \cup {PhoneRow(uid, phone)}]

NoVerification == [pc |-> "idle", phone |-> "", result |-> "none", count |-> 0]

InitPhone ==
    /\ phone_verifications = {}
    /\ verification = [u \in Users |-> NoVerification]
    /\ SchemaIdle /\ BoardIdle /\ IndexIdle
    /\ UrlIdle /\ AdapterIdle /\ Idle

phoneRest == <<schemaVars, boardVars, indexVars, vin, vout, ain, aout, jobVars>>

\* supabase.rpc('complete_phone_verification', { phone }) by user u
CallVerification(u, phone) ==
    /\ verification[u].pc = "idle"
    /\ verification[u].count < MaxVerifications
    /\ verification' = [verification EXCEPT ![u] =
          [pc |-> "check", phone |-> phone, result |-> "none", count |-> @.count + 1]]
    /\ UNCHANGED <<phone_verifications, phoneRest>>

\* the IF EXISTS statement: RETURN false, or go on to the insert
CheckStep(u) ==
    /\ verification[u].pc = "check"
    /\ verification' = [verification EXCEPT ![u] =
          IF UsedByOther(phone_verifications, u, @.phone)
          THEN [@ EXCEPT !.pc = "idle", !.result = "false"]
          ELSE [@ EXCEPT !.pc = "insert"]]
    /\ UNCHANGED <<phone_verifications, phoneRest>>

\* the INSERT statement and the end of the function: RETURN true and commit, or
\* the error of the unique index, which rolls the call back
InsertStep(u) ==
    /\ verification[u].pc = "insert"
    /\ LET done == InsertOnConflict(phone_verifications, u, verification[u].phone)
       IN  /\ phone_verifications' = done.rows
           /\ verification' = [verification EXCEPT ![u] =
                 [@ EXCEPT !.pc = "idle", !.result = IF done.ok THEN "true" ELSE "error"]]
    /\ UNCHANGED phoneRest

NextPhone ==
    \/ \E u \in Users, phone \in Phones : CallVerification(u, phone)
    \/ \E u \in Users : CheckStep(u)
    \/ \E u \in Users : InsertStep(u)

SpecPhone == InitPhone /\ [][NextPhone]_vars

(***************************************************************************)
(* SpecIndex: the Index page, its activeTab state and the tab of the URL   *)
(***************************************************************************)
\* user events of one run: tab changes and navigations
MaxEvents == 4

VALID_TABS == {"board", "career", "goals", "settings"}
DefaultTab == "board"
\* the :tab parameter: absent on the root path, legacy, valid, or unknown
UrlTabs == {"", "chat", "board", "career", "goals", "settings", "unknown"}

\* initialTab
initialTab(urlTab) == IF urlTab # "" /\ urlTab \in VALID_TABS THEN urlTab ELSE DefaultTab

InitIndex ==
    /\ tab \in UrlTabs
    /\ activeTab = initialTab(tab)
    /\ effectPending = TRUE
    /\ requested = initialTab(tab)
    /\ events = 0
    /\ SchemaIdle /\ BoardIdle /\ PhoneIdle
    /\ UrlIdle /\ AdapterIdle /\ Idle

indexRest == <<schemaVars, boardVars, phoneVars, vin, vout, ain, aout, jobVars>>

\* a handleTabChange that sets the state and leaves the URL alone: C29 has to
\* tell it from handleTabChange
handleTabChangeStateOnly(newTab) ==
    /\ ~effectPending
    /\ events < MaxEvents
    /\ events' = events + 1
    /\ requested' = newTab
    /\ IF newTab # activeTab
       THEN /\ activeTab' = newTab
            /\ tab' = tab
            /\ effectPending' = TRUE
       ELSE UNCHANGED <<activeTab, tab, effectPending>>
    /\ UNCHANGED indexRest

\* handleTabChange(newTab), from a tab button or a navigate-to-tab event; the
\* state update and the navigation reach the same render
handleTabChange(newTab) ==
    /\ ~effectPending
    /\ events < MaxEvents
    /\ events' = events + 1
    /\ requested' = newTab
    /\ IF newTab # activeTab
       THEN /\ activeTab' = newTab
            /\ tab' = newTab
            /\ effectPending' = TRUE
       ELSE UNCHANGED <<activeTab, tab, effectPending>>
    /\ UNCHANGED indexRest

\* the location changes under the page: back, forward, a link
Navigate(urlTab) ==
    /\ ~effectPending
    /\ events < MaxEvents
    /\ urlTab # tab
    /\ events' = events + 1
    /\ tab' = urlTab
    /\ requested' = initialTab(urlTab)
    /\ effectPending' = TRUE
    /\ UNCHANGED <<activeTab, indexRest>>

\* the URL-sync effect, run after a render in which tab or activeTab changed
SyncEffect ==
    /\ effectPending
    /\ IF tab = "" \/ tab = "chat" \/ tab \notin VALID_TABS
       THEN /\ tab' = DefaultTab
            /\ activeTab' = activeTab
       ELSE /\ tab' = tab
            /\ activeTab' = IF tab # activeTab THEN tab ELSE activeTab
    /\ effectPending' = (tab' # tab \/ activeTab' # activeTab)
    /\ UNCHANGED <<requested, events, indexRest>>

NextIndex ==
    \/ \E newTab \in VALID_TABS : handleTabChange(newTab)
    \/ \E urlTab \in UrlTabs : Navigate(urlTab)
    \/ SyncEffect

SpecIndex == InitIndex /\ [][NextIndex]_vars /\ WF_vars(SyncEffect)
(***************************************************************************)
(* Properties of the credit ledger (Spec)                                  *)
(***************************************************************************)
\* the step in which request r's conditional update answers
UpdateStep(r) == pc[r] = "update" /\ pc'[r] # "update"

\* request r has issued none of the operations ops
IssuedNone(r, ops) == \A op \in ops : ~Issued(r, op)

\* C1: of two concurrent requests that both read ai_credits_remaining = 1, at
\* most one conditional update changes the row; the request whose update finds
\* the balance already changed leaves the row as it is and ends with HTTP 409.
C1_RaceLoserGets409 ==
    [][\A r \in Reqs :
         (UpdateStep(r) /\ subscription[r].ai_credits_remaining = 1
                        /\ row.ai_credits_remaining # 1)
             => (row' = row /\ pc'[r] = "done" /\ response'[r].status = 409)]_vars

\* C2: in every reachable state ai_credits_remaining is at least 0.
C2_NeverNegative == row.exists => row.ai_credits_remaining >= 0

\* the last credit is gone while another request still holds the balance it read
C2_LastCreditTaken ==
    /\ row.exists /\ row.ai_credits_remaining = 0 /\ row.ai_credits_used >= 1
    /\ \E r \in Reqs : pc[r] = "update" /\ subscription[r].ai_credits_remaining = 1

\* C3: every request answered 200 success:true has lowered the balance by one, so
\* the number of 200 success responses never exceeds the number of credits deducted.
C3_SuccessesWithinDeductions ==
    Cardinality({r \in Reqs : response[r].status = 200 /\ response[r].success})
        <= (IF row.exists THEN row.ai_credits_used ELSE 0)

\* C4: a request reads the balance once and updates once, and it is at the
\* request body or at a fetch, scrape or AI call only if its own conditional
\* update changed a row.
C4_FetchOnlyAfterOwnDeduction ==
    \A r \in Reqs :
        /\ Times(r, "select") <= 1
        /\ Times(r, "update") <= 1
        /\ (pc[r] \in {"body"} \cup Outbound) => Entry("update", 1) \in Range(log[r])

\* C5: a request whose select answers with a balance of zero ends at once with
\* HTTP 402, leaves the row unchanged, and has issued no update, fetch, scrape or
\* AI call.
C5_NoCreditsFailsFast ==
    [][\A r \in Reqs :
         (pc[r] = "select" /\ pc'[r] # "select" /\ row.exists
                           /\ row.ai_credits_remaining = 0 /\ response'[r].status # 404)
             => /\ pc'[r] = "done"
                /\ response'[r].status = 402
                /\ ~response'[r].success
                /\ row' = row
                /\ IssuedNone(r, {"update"} \cup Outbound)]_vars

\* a request was refused for lack of credits after another one took the last credit
C5_RefusedAfterLastCredit ==
    /\ row.exists /\ row.ai_credits_remaining = 0 /\ row.ai_credits_used >= 1
    /\ \E r \in Reqs : response[r].status = 402 /\ response[r].site = "noCredits"

(***************************************************************************)
(* Properties of validateUrl (SpecUrl)                                     *)
(***************************************************************************)
\* hostname equals an allowlisted domain, or ends with "." and that domain
DotBoundaryMatch(hostname) ==
    \E allowed \in ALLOWED_DOMAINS :
        LET n == Len(hostname)
            k == Len(allowed)
        IN  \/ hostname = allowed
            \/ /\ n > k
               /\ hostname[n - k] = "."
               /\ \A i \in 1..k : hostname[n - k + i] = allowed[i]

\* the URL the validator parses for the input vin, and the input's trimmed text
ParsedInput == ParseUrl(FormatUrl(vin))
HttpProtocols == { S_http \o <<":">>, S_https \o <<":">> }

\* C6: validateUrl answers valid:false with a non-empty error for every input
\* whose hostname does not match the allowlist at a dot boundary; every URL it
\* accepts has an http or https protocol and a hostname that does.
C6_OnlyAllowlistedAccepted ==
    vout # NotValidated =>
        /\ (~ParsedInput.ok \/ ~DotBoundaryMatch(ParsedInput.hostname))
              => (~vout.valid /\ vout.error # "")
        /\ ~vout.valid => vout.error # ""
        /\ vout.valid =>
              /\ ParsedInput.ok
              /\ ParsedInput.protocol \in HttpProtocols
              /\ DotBoundaryMatch(ParsedInput.hostname)

\* a lookalike of an allowlisted domain was validated, and rejected
C6_LookalikeRejected ==
    /\ vout # NotValidated
    /\ ~vout.valid
    /\ ParsedInput.ok
    /\ ParsedInput.hostname \in { <<"n","o","t","l","i","n","k","e","d","i","n",".","c","o","m">>, <<"e","v","i","l","-","l","i","n","k","e","d","i","n",".","c","o","m",".","a","t","t","a","c","k","e","r",".","n","e","t">> }

\* the input has no scheme at all
HasNoScheme(input) == ~Includes(input, <<":","/","/">>)
\* the input begins with http:// or https://
HasHttpScheme(input) ==
    StartsWith(input, S_http \o <<":","/","/">>) \/ StartsWith(input, S_httpsPrefix)

\* C8: an input without a scheme is normalized by prepending https:// and, when
\* the hostname is allowlisted (and not one the validator blocks as loopback or
\* private), accepted with that normalized URL; an accepted input that has an
\* http(s) scheme is returned unchanged apart from trimming.
C8_MissingSchemeNormalized ==
    vout # NotValidated =>
        LET input      == Trim(vin)
            normalized == S_httpsPrefix \o input
            parsed     == ParseUrl(normalized)
        IN  /\ (/\ HasNoScheme(input)
                /\ parsed.ok
                /\ DotBoundaryMatch(parsed.hostname)
                /\ parsed.hostname \notin LocalHosts
                /\ ~IsPrivateHost(parsed.hostname))
                  => (vout.valid /\ vout.url = normalized)
            /\ (HasHttpScheme(input) /\ vout.valid) => vout.url = input

(***************************************************************************)
(* Properties of the pipeline and its responses (Spec)                     *)
(***************************************************************************)
\* C7: every outbound request is issued for a URL that validateUrl accepted, a
\* direct fetch or scrape targets exactly the URL validateUrl returned, and a
\* request rejected by validateUrl ends with 400 having issued none of them.
C7_OutboundOnlyForValidatedUrl ==
    [][\A r \in Reqs :
         /\ (inflight'[r] # inflight[r] /\ inflight'[r].kind \in Outbound)
               => /\ urlValidationOf(url'[r]).valid
                  /\ inflight'[r].kind \in {"direct", "scrape"}
                        => inflight'[r].target = urlValidationOf(url'[r]).url
         /\ (pc[r] = "body" /\ pc'[r] = "done" /\ response'[r].site = "urlRejected")
               => /\ response'[r].status = 400
                  /\ IssuedNone(r, Outbound)]_vars

\* one request is scraping a URL that was normalized, another was rejected
C7_ScrapeOfNormalizedUrl ==
    \E r, s \in Reqs :
        /\ inflight[r].kind = "scrape"
        /\ inflight[r].target # url[r]
        /\ response[s].status = 400 /\ response[s].site = "urlRejected"

\* C9: a request that ends at the Authorization header test or at getUser ends
\* with HTTP 401, the row unchanged, and no select, update, fetch, scrape or AI
\* call issued.
C9_UnauthenticatedHasNoEffect ==
    [][\A r \in Reqs :
         (pc[r] \in {"start", "getUser"} /\ pc'[r] = "done" /\ response'[r].site # "options")
             => /\ response'[r].status = 401
                /\ ~response'[r].success
                /\ row' = row
                /\ IssuedNone(r, {"select", "update"} \cup Outbound)]_vars

\* both ways of failing authentication have happened, the credits untouched
C9_BothRefusals ==
    \E r, s \in Reqs :
        /\ response[r].status = 401 /\ response[r].site = "noAuthHeader"
        /\ response[s].status = 401 /\ response[s].site = "authError"
        /\ row.exists /\ row.ai_credits_used = 0

\* the responses that have a JSON body: all but the CORS preflight's
JsonResponses == {r \in Reqs : response[r].status # 0 /\ response[r].body = "json"}

\* the status the specification documents for each cause of failure
DocumentedStatus(cause) ==
    CASE cause \in {"schema", "bodyNotJson", "urlRejected", "unsupportedSite", "scrapeFailed",
                    "scrapeThrew", "contentTooShort", "noContent", "notJobPosting"} -> {400}
      [] cause \in {"noAuthHeader", "authError"} -> {401}
      [] cause = "noCredits" -> {402}
      [] cause = "noSubscription" -> {404}
      [] cause = "creditConflict" -> {409}
      [] cause = "aiRateLimited" -> {429}
      [] cause \in {"noFirecrawlKey", "noGeminiKey", "aiFailed", "aiThrew"} -> {500}
      [] cause = "aiPayment" -> {402, 500}
      [] OTHER -> {}

\* the same, with 500 for whatever the handler's catch-all catches and 402 for a
\* 402 of the AI service
ActualStatus(cause) ==
    CASE cause \in {"bodyNotJson", "scrapeThrew", "aiThrew"} -> {500}
      [] cause = "aiPayment" -> {402}
      [] OTHER -> DocumentedStatus(cause)

\* C10 as stated: success:true exactly with status 200, every failure has the
\* status documented for its cause (400 request, URL and content failures, 401,
\* 402, 404, 409, 429, 500 missing configuration or AI failure) and a non-empty
\* error.
C10_DocumentedStatuses ==
    \A r \in JsonResponses :
        /\ response[r].success <=> response[r].status = 200
        /\ ~response[r].success =>
              /\ response[r].status \in DocumentedStatus(response[r].cause)
              /\ response[r].error # ""

\* C10: every response with a JSON body has success:true exactly with status 200;
\* a failure has a non-empty error and the documented status for its cause, where
\* whatever the catch-all catches (a body that is not JSON, a scrape or AI call
\* that throws, an AI body that is not JSON) is a 500 and a 402 of the AI service
\* is passed on as 402.
C10_StatusByCause ==
    \A r \in JsonResponses :
        /\ response[r].success <=> response[r].status = 200
        /\ ~response[r].success =>
              /\ response[r].status \in ActualStatus(response[r].cause)
              /\ response[r].error # ""

\* a body that was not JSON was answered 500, and another request succeeded
C10_CatchAllAndSuccess ==
    \E r, s \in Reqs :
        /\ response[r].status = 500 /\ response[r].cause = "bodyNotJson"
        /\ response[s].status = 200 /\ response[s].success


(***************************************************************************)
(* Properties of the scraping and AI stages (Spec)                         *)
(***************************************************************************)
\* the scraping API answered, with success false and an error that contains
\* 'not currently supported'
AnswersUnsupported(reply) == ~reply.threw /\ ~reply.success /\ reply.unsupported

\* C11: when the scraping API answers the scrape of a validated URL with
\* success:false and an error containing 'not currently supported', the request
\* ends with a failure response that carries unsupportedSite:true, and the AI
\* service was not called for it.
C11_UnsupportedSiteFlagged ==
    [][\A r \in Reqs : \A reply \in ScrapeReplies :
         (ScrapeSettlesWith(r, reply) /\ AnswersUnsupported(reply))
            => /\ urlValidationOf(url[r]).valid
               /\ pc'[r] = "done"
               /\ ~response'[r].success
               /\ "unsupportedSite" \in response'[r].flags
               /\ ~Issued(r, "ai")]_vars

\* a request was answered 400 with the unsupportedSite flag
C11_UnsupportedSiteAnswered ==
    \E r \in Reqs :
        /\ response[r].status = 400
        /\ ~response[r].success
        /\ "unsupportedSite" \in response[r].flags


\* the AI service answered 200 with a JSON body
AnswersJson(reply) == ~reply.threw /\ reply.status = 200 /\ reply.json

\* the normalized AI response has no tool call
NoToolCall(aiData) == aiData.isNull \/ aiData.tool_calls = <<>>

\* the arguments of its first tool call are not JSON
ArgumentsUnparsable(aiData) ==
    /\ ~NoToolCall(aiData)
    /\ ~JsonParse(aiData.tool_calls[1].arguments).ok

\* request r was answered with the noContent flag
AnsweredNoContent(r) == response[r].status # 0 /\ "noContent" \in response[r].flags

\* C12: when the normalized AI response has no tool call, or the arguments of its
\* tool call fail JSON parsing, the request ends with a failure response that
\* carries noContent:true, never with a success, and the client adds no job
\* posting for it.
C12_NoExtractionIsNoContent ==
    [][/\ \A r \in Reqs : \A reply \in AiReplies :
            (/\ AiSettlesWith(r, reply)
             /\ AnswersJson(reply)
             /\ NoToolCall(AiData(reply)) \/ ArgumentsUnparsable(AiData(reply)))
                => /\ pc'[r] = "done"
                   /\ response'[r].status = 400
                   /\ ~response'[r].success
                   /\ "noContent" \in response'[r].flags
       /\ \A r \in Reqs :
            AnsweredNoContent(r) => (posting[r] = "none" /\ posting'[r] = "none")]_vars

\* one request was answered noContent and has no posting, while the posting of
\* another was added
C12_NoContentBesideAdded ==
    \E r, s \in Reqs :
        /\ AnsweredNoContent(r) /\ posting[r] = "none"
        /\ posting[s] = "added"


\* the model's extraction says the page is not a job posting
NotAJobPosting(aiData) ==
    LET jobData == ExtractJobData(aiData)
    IN  Truthy(jobData) /\ jobData.t = "object" /\ jobData.isJobPosting = "false"

\* request r was answered that the page is not a job posting
AnsweredNotJobPosting(r) == response[r].status # 0 /\ response[r].cause = "notJobPosting"

\* C13: when the extraction has isJobPosting false, the request ends with the
\* 'not a job posting' failure; the step leaves the credit row as it is, the
\* request has updated it at most once, and the client adds no job posting.
C13_NotJobPostingRejected ==
    [][/\ \A r \in Reqs : \A reply \in AiReplies :
            (AiSettlesWith(r, reply) /\ AnswersJson(reply) /\ NotAJobPosting(AiData(reply)))
                => /\ pc'[r] = "done"
                   /\ response'[r] = NotJobPostingResponse
                   /\ response'[r].status = 400 /\ ~response'[r].success
                   /\ row' = row
                   /\ Times(r, "update") <= 1
       /\ \A r \in Reqs :
            AnsweredNotJobPosting(r) => (posting[r] = "none" /\ posting'[r] = "none")]_vars

\* one request was told its page is not a job posting and has no posting, while
\* the posting of another is being added
C13_NotJobPostingBesideAdding ==
    \E r, s \in Reqs :
        /\ AnsweredNotJobPosting(r) /\ posting[r] = "none"
        /\ posting[s] = "adding"


\* position of request r's first call of op in its log, 0 when there is none
FirstCall(r, op) ==
    IF Issued(r, op) THEN CHOOSE i \in 1..Len(log[r]) : log[r][i].op = op /\
                                 \A j \in 1..(i - 1) : log[r][j].op # op
    ELSE 0

\* C16: within one request the conditional update, the direct fetch, the
\* scraping-API call and the AI call are each issued at most once; content is
\* asked for a second time only by the scrape that follows the direct fetch.
C16_EachCallAtMostOnce ==
    \A r \in Reqs :
        /\ \A op \in {"update", "direct", "scrape", "ai"} : Times(r, op) <= 1
        /\ (Issued(r, "direct") /\ Issued(r, "scrape"))
              => FirstCall(r, "direct") < FirstCall(r, "scrape")

\* a request that used the fallback is at the AI call, each call issued once
C16_FallbackThenAi ==
    \E r \in Reqs :
        /\ pc[r] = "ai"
        /\ \A op \in {"update", "direct", "scrape", "ai"} : Times(r, op) = 1

\* hostname is linkedin.com or a subdomain of it
IsLinkedInHost(hostname) ==
    hostname = S_linkedin \/ EndsWith(hostname, <<".">> \o S_linkedin)

\* C17: a request issues a direct fetch if and only if the hostname of its
\* validated URL is linkedin.com or a subdomain of it; with any other validated
\* URL it goes to the scraping service without a direct fetch.
C17_DirectFetchIffLinkedInHost ==
    \A r \in Reqs :
        pc[r] \in Outbound =>
            (Issued(r, "direct") <=> IsLinkedInHost(ParseUrl(formattedUrl[r]).hostname))

\* the step in which request r issues its scrape
ScrapeIssued(r) == inflight[r].kind # "scrape" /\ inflight'[r].kind = "scrape"

\* C18: the scraping service is called if and only if the content at hand after
\* the direct-fetch stage is empty or shorter than 100 characters: always when the
\* direct fetch was skipped, after a direct fetch that threw, timed out, was not
\* OK or gave under 100 characters, and not after one that gave 100 or more.
C18_ScrapeIffContentShort ==
    [][\A r \in Reqs :
         /\ \A reply \in DirectReplies :
               DirectFetchSettlesWith(r, reply)
                  => /\ ScrapeIssued(r) <=> (DirectContent(reply) = 0 \/ DirectContent(reply) < 100)
                     /\ (reply.threw \/ ~reply.ok) => ScrapeIssued(r)
         /\ (pc[r] = "body" /\ pc'[r] \in Outbound \ {"direct"}) => ScrapeIssued(r)
         /\ ScrapeIssued(r)
               => /\ pc[r] \in {"body", "direct"}
                  /\ pageContent'[r] < 100
                  /\ ~Issued(r, "scrape") /\ ~Issued(r, "ai")]_vars

\* one request scrapes after a direct fetch that gave 99 characters, another is at
\* the AI call with the 100 characters of its direct fetch and without a scrape
C18_FallbackBesideDirectContent ==
    \E r, s \in Reqs :
        /\ pc[r] = "scrape" /\ Issued(r, "direct") /\ pageContent[r] = 99
        /\ pc[s] = "ai" /\ ~Issued(s, "scrape") /\ pageContent[s] = 100

\* the step in which request r issues its AI call
AiIssued(r) == inflight[r].kind # "ai" /\ inflight'[r].kind = "ai"

\* request r ends in this step with the generic 400 of content that could not be
\* retrieved
EndsCouldNotRetrieve(r) ==
    /\ pc'[r] = "done"
    /\ response'[r].status = 400 /\ ~response'[r].success
    /\ response'[r].cause \in {"scrapeFailed", "contentTooShort"}
    /\ response'[r].flags = {}

\* the scrape failed: the call threw, or was answered not-OK or with success false
ScrapeFailed(reply) == reply.threw \/ ~reply.ok \/ ~reply.success

\* the scrape was answered, and the answer reports a failure
ScrapeAnswersFailure(reply) == ~reply.threw /\ (~reply.ok \/ ~reply.success)

\* the AI call is issued only with content of at least 50 characters, and a
\* scrape that gives less ends the request with the generic 400
AiOnlyWithContent(r) ==
    /\ AiIssued(r) => pageContent'[r] >= 50
    /\ \A reply \in ScrapeReplies :
          (ScrapeSettlesWith(r, reply) /\ ~ScrapeFailed(reply) /\ reply.markdown < 50)
              => (EndsCouldNotRetrieve(r) /\ ~Issued(r, "ai"))

\* C19 as stated: the AI call is issued only with content of at least 50
\* characters; every failure of the scrape other than 'unsupported site', and
\* every final content under 50 characters, ends the request with the generic
\* could-not-retrieve-content 400, without an AI call.
C19_FailedScrapeIsGeneric400 ==
    [][\A r \in Reqs :
         /\ AiOnlyWithContent(r)
         /\ \A reply \in ScrapeReplies :
               (ScrapeSettlesWith(r, reply) /\ ScrapeFailed(reply) /\ ~reply.unsupported)
                   => (EndsCouldNotRetrieve(r) /\ ~Issued(r, "ai"))]_vars

\* C19: the AI call is issued only with content of at least 50 characters; a
\* scrape answered with a failure other than 'unsupported site', and every final
\* content under 50 characters, ends the request with the generic
\* could-not-retrieve-content 400; a scrape that throws ends it with the
\* catch-all 500; none of them calls the AI.
C19_AnsweredFailureIsGeneric400 ==
    [][\A r \in Reqs :
         /\ AiOnlyWithContent(r)
         /\ \A reply \in ScrapeReplies :
               /\ (ScrapeSettlesWith(r, reply) /\ ScrapeAnswersFailure(reply) /\ ~reply.unsupported)
                     => (EndsCouldNotRetrieve(r) /\ ~Issued(r, "ai"))
               /\ (ScrapeSettlesWith(r, reply) /\ reply.threw)
                     => /\ pc'[r] = "done"
                        /\ response'[r].status = 500 /\ ~response'[r].success
                        /\ ~Issued(r, "ai")]_vars

\* one request ended on a failed scrape, another on content that was too short
C19_FailedBesideTooShort ==
    \E r, s \in Reqs :
        /\ response[r].status = 400 /\ response[r].cause = "scrapeFailed"
        /\ response[s].status = 400 /\ response[s].cause = "contentTooShort"

\* the smaller of two numbers
Min(a, b) == IF a <= b THEN a ELSE b

\* C20: whatever the length of the page content, the content sent to the model
\* has min(length, 15000) characters, hence never more than 15,000.
C20_ContentCutTo15000 ==
    \A r \in Reqs :
        inflight[r].kind = "ai"
            => /\ inflight[r].contentLen = Min(pageContent[r], 15000)
               /\ inflight[r].contentLen <= 15000

\* one AI call carries 15,000 characters of a page of 15,001, another the whole
\* of a shorter page
C20_CutBesideWhole ==
    \E r, s \in Reqs :
        /\ inflight[r].kind = "ai" /\ pageContent[r] = 15001 /\ inflight[r].contentLen = 15000
        /\ inflight[s].kind = "ai" /\ pageContent[s] < 15000
        /\ inflight[s].contentLen = pageContent[s]

(***************************************************************************)
(* Properties of the Gemini adapter (SpecAdapter)                          *)
(***************************************************************************)
\* the chat payload forces the choice of one of its tools
ForcesOneFunction(payload) ==
    /\ payload.tool_choice.type = "function"
    /\ payload.tool_choice.name \in payload.tools

\* the adapter ran and the normalized answer has a tool call
YieldsToolCall == ~aout.pending /\ ~aout.response.isNull /\ aout.response.tool_calls # <<>>

\* the value the provider gave: args (or arguments) of the first function call,
\* else the value its text parses to
ProvidedValue(answer) ==
    LET parts == answer.parts
        fcs   == {i \in 1..Len(parts) : IsFunctionCallPart(parts[i])}
    IN  IF fcs # {}
        THEN LET fc == parts[CHOOSE i \in fcs : \A j \in fcs : i <= j].functionCall
             IN  [call |-> TRUE, value |-> Nullish(fc.args, fc.arguments)]
        ELSE [call |-> FALSE, value |-> JsonParse(JoinTexts(parts)).value]

\* an object that carries the schema's required fields
HasRequiredFields(v) == v.t = "object" /\ v.isJobPosting # "absent"

\* C14 as stated: for a forced single-function tool choice, every answer of the
\* provider that yields a tool call gives arguments that parse as JSON, and that
\* parse to the provider's object when it returned a function call with the
\* required fields.
C14_ArgumentsAlwaysJson ==
    (ForcesOneFunction(ain.payload) /\ YieldsToolCall)
        => LET arguments == aout.response.tool_calls[1].arguments
               provided  == ProvidedValue(ain.answer)
           IN  /\ JsonParse(arguments).ok
               /\ (provided.call /\ HasRequiredFields(provided.value))
                     => JsonParse(arguments).value = provided.value

\* C14: for a forced single-function tool choice the request built restricts
\* function calling to that function, and an answer that yields a tool call gives
\* arguments that are the serialization of the value the provider gave (of {} for
\* a function call without args), which parses back to that value, unless the
\* value is a string: a string is passed on as it is, JSON or not.
C14_ArgumentsJsonUnlessString ==
    (~aout.pending /\ ForcesOneFunction(ain.payload))
        => /\ aout.request.toolConfig.mode = "ANY"
           /\ aout.request.toolConfig.allowedFunctionNames = {ain.payload.tool_choice.name}
           /\ ain.payload.tool_choice.name \in aout.request.functionDeclarations
           /\ YieldsToolCall
                => LET arguments == aout.response.tool_calls[1].arguments
                       provided  == ProvidedValue(ain.answer)
                   IN  IF provided.value.t = "string"
                       THEN arguments = provided.value.s
                       ELSE /\ JsonParse(arguments).ok
                            /\ JsonParse(arguments).value =
                                  (IF provided.call THEN Nullish(provided.value, JObject("absent"))
                                   ELSE provided.value)
                            /\ (provided.call /\ HasRequiredFields(provided.value))
                                  => JsonParse(arguments).value = provided.value

\* a forced request was answered with a function call whose args carry the
\* required fields, and the arguments parse back to them
C14_FunctionCallRoundTrip ==
    /\ ForcesOneFunction(ain.payload) /\ YieldsToolCall
    /\ ProvidedValue(ain.answer).call
    /\ HasRequiredFields(ProvidedValue(ain.answer).value)
    /\ JsonParse(aout.response.tool_calls[1].arguments).value = JObject("true")


\* some part of the answer holds text that is not empty
HasText(parts) ==
    \E i \in 1..Len(parts) : IsTextPart(parts[i]) /\ parts[i].text.kind # "empty"

\* some part of the answer is a function call
HasFunctionCall(parts) == \E i \in 1..Len(parts) : IsFunctionCallPart(parts[i])

\* C21: normalizeGeminiToLovable returns null if and only if the parts hold
\* neither non-empty text nor a function call; otherwise it returns one message,
\* whose content is the joined text, and with a function call among the parts its
\* tool call is the one the function-call parts alone would give, whatever text
\* there is.
C21_NullIffNothingUsable ==
    ~aout.pending
        => LET parts == ain.answer.parts
           IN  /\ aout.response.isNull <=> (~HasText(parts) /\ ~HasFunctionCall(parts))
               /\ ~aout.response.isNull => aout.response.content = JoinTexts(parts)
               /\ HasFunctionCall(parts)
                     => /\ Len(aout.response.tool_calls) = 1
                        /\ aout.response.tool_calls =
                              normalizeGeminiToLovable(
                                  [parts |-> SelectSeq(parts, IsFunctionCallPart)]).tool_calls

\* prose text came with a function call, and the tool call is the function call's
C21_FunctionCallBesideText ==
    /\ ~aout.pending
    /\ ain.answer.parts = <<TextPart(Prose), FunctionCallPart(JObject("true"))>>
    /\ aout.response.content = Prose
    /\ aout.response.tool_calls = <<[arguments |-> JsonStringify(JObject("true"))]>>

(***************************************************************************)
(* Properties of the stages of one ingestion attempt (SpecFair)            *)
(***************************************************************************)
\* the stages an attempt passes through, in order
StageOrder ==
    <<"pending", "validating-url", "fetching-content", "extracting", "persisting">>

\* the terminal states the specification lists
DocumentedTerminals ==
    {"done", "rejected-url", "fetch-failed", "extraction-empty", "not-a-job-posting",
     "credit-exhausted", "credit-conflict"}

\* the other ways an attempt ends
OtherTerminals ==
    {"preflight", "unauthenticated", "no-subscription", "bad-request", "not-configured",
     "extraction-failed", "persist-failed"}

\* the terminal state of an attempt that was answered with a failure
FailureStage(cause) ==
    CASE cause \in {"urlRejected", "schema"} -> "rejected-url"
      [] cause \in {"unsupportedSite", "scrapeFailed", "scrapeThrew", "contentTooShort"}
            -> "fetch-failed"
      [] cause = "noContent" -> "extraction-empty"
      [] cause = "notJobPosting" -> "not-a-job-posting"
      [] cause = "noCredits" -> "credit-exhausted"
      [] cause = "creditConflict" -> "credit-conflict"
      [] cause = "options" -> "preflight"
      [] cause \in {"noAuthHeader", "authError"} -> "unauthenticated"
      [] cause = "noSubscription" -> "no-subscription"
      [] cause = "bodyNotJson" -> "bad-request"
      [] cause \in {"noFirecrawlKey", "noGeminiKey"} -> "not-configured"
      [] cause \in {"aiRateLimited", "aiPayment", "aiFailed", "aiThrew"} -> "extraction-failed"

\* the stage attempt r is in
Stage(r) ==
    CASE pc[r] \in {"start", "getUser", "select", "update"} -> "pending"
      [] pc[r] = "body" -> "validating-url"
      [] pc[r] \in {"direct", "scrape"} -> "fetching-content"
      [] pc[r] = "ai" -> "extracting"
      [] pc[r] = "done" /\ response[r].status = 0 -> "pending"
      [] pc[r] = "done" /\ response[r].status # 0 ->
            IF ~AnalyzeSucceeds(response[r]) THEN FailureStage(response[r].cause)
            ELSE CASE posting[r] \in {"none", "adding"} -> "persisting"
                   [] posting[r] = "added" -> "done"
                   [] posting[r] = "failed" -> "persist-failed"

\* position of a stage in the order; every terminal state comes last
Rank(stage) ==
    IF \E i \in 1..Len(StageOrder) : StageOrder[i] = stage
    THEN CHOOSE i \in 1..Len(StageOrder) : StageOrder[i] = stage
    ELSE Len(StageOrder) + 1

\* no attempt steps back to an earlier stage, and none leaves a terminal state
StagesInOrder ==
    \A r \in Reqs :
        /\ Rank(Stage(r)') >= Rank(Stage(r))
        /\ Rank(Stage(r)) > Len(StageOrder) => Stage(r)' = Stage(r)

\* C15 as stated: an attempt moves through pending, validating-url,
\* fetching-content, extracting, persisting and done in this order, never back,
\* and, each external call returning, ends in exactly one of done, rejected-url,
\* fetch-failed, extraction-empty, not-a-job-posting, credit-exhausted and
\* credit-conflict (the answer to an OPTIONS preflight aside).
C15_EndsInDocumentedTerminal ==
    /\ [][StagesInOrder]_vars
    /\ <>[](\A r \in Reqs : Stage(r) \in DocumentedTerminals \cup {"preflight"})

\* C15: an attempt moves through the stages in this order, never back, and, each
\* external call returning, ends in exactly one terminal state: one of the seven
\* listed, or unauthenticated, no-subscription, bad-request, not-configured,
\* extraction-failed or persist-failed.
C15_EndsInOneTerminal ==
    /\ [][StagesInOrder]_vars
    /\ <>[](\A r \in Reqs : Stage(r) \in DocumentedTerminals \cup OtherTerminals)

\* one attempt went all the way to done while another ended outside the list
C15_DoneBesideUnlisted ==
    \E r, s \in Reqs :
        /\ Stage(r) = "done"
        /\ Stage(s) = "extraction-failed"


(***************************************************************************)
(* Properties of sanitizeSchema (SpecSchema)                               *)
(***************************************************************************)
\* some object of the schema, at whatever depth, has one of the removed keys
RECURSIVE HasRemovedKey(_)
HasRemovedKey(value) ==
    IF value.t = "array"
    THEN \E i \in 1..Len(value.items) : HasRemovedKey(value.items[i])
    ELSE IF value.t = "object"
    THEN \/ DOMAIN value.fields \cap RemovedKeys # {}
         \/ \E key \in DOMAIN value.fields : HasRemovedKey(value.fields[key])
    ELSE FALSE

\* cleaned is original with the removed keys taken out and nothing else changed
RECURSIVE Preserves(_, _)
Preserves(original, cleaned) ==
    IF original.t = "array"
    THEN /\ cleaned.t = "array"
         /\ Len(cleaned.items) = Len(original.items)
         /\ \A i \in 1..Len(original.items) : Preserves(original.items[i], cleaned.items[i])
    ELSE IF original.t = "object"
    THEN /\ cleaned.t = "object"
         /\ DOMAIN cleaned.fields = DOMAIN original.fields \ RemovedKeys
         /\ \A key \in DOMAIN cleaned.fields :
               Preserves(original.fields[key], cleaned.fields[key])
    ELSE cleaned = original

\* C22: the result of sanitizeSchema has the keys additionalProperties and
\* nullable at no depth, through objects and arrays, and is otherwise the schema
\* it was given, every other key and value unchanged; applied to its own result
\* it returns that result.
C22_RemovesKeysEverywhere ==
    /\ Len(sout) >= 1 => (~HasRemovedKey(sout[1]) /\ Preserves(sin, sout[1]))
    /\ Len(sout) = 2 => sout[2] = sout[1]

\* a schema with nullable inside an array inside properties was cleaned, twice
C22_NestedKeyRemoved ==
    /\ sin = Obj([properties |-> Arr(<<Prim("string"),
                                       Obj([type |-> Prim("string"), nullable |-> Prim("true")])>>)])
    /\ Len(sout) = 2
    /\ sout[1] = Obj([properties |-> Arr(<<Prim("string"), Obj([type |-> Prim("string")])>>)])


(***************************************************************************)
(* Further properties of the credit ledger (Spec)                          *)
(***************************************************************************)
\* C26: ai_credits_remaining + ai_credits_used stays what it was: a step that
\* changes the row is the conditional update of some request, and it lowers
\* remaining by exactly 1 and raises used by exactly 1.
C26_RemainingPlusUsedConstant ==
    [][row.exists
         => /\ row'.exists
            /\ row'.ai_credits_remaining + row'.ai_credits_used
                  = row.ai_credits_remaining + row.ai_credits_used
            /\ row' # row
                  => /\ \E r \in Reqs : UpdateStep(r)
                     /\ row'.ai_credits_remaining = row.ai_credits_remaining - 1
                     /\ row'.ai_credits_used = row.ai_credits_used + 1]_vars

\* one credit was deducted, and the update of another request changed nothing
C26_DeductedOnce ==
    /\ row.exists /\ row.ai_credits_remaining = 0 /\ row.ai_credits_used = 1
    /\ \E r \in Reqs : Entry("update", 0) \in Range(log[r])

\* the step in which request r, past its credit update, ends with a failure
FailsAfterUpdate(r) ==
    /\ pc[r] \in {"body"} \cup Outbound
    /\ pc'[r] = "done"
    /\ ~response'[r].success

\* C27: the balance never rises; the update of a request that deducts writes one
\* less than the balance the request read; and a request that fails after its
\* update (body, URL, configuration, fetch, AI, noContent, not a job posting,
\* exception) ends without writing the row, so its credit is not given back.
C27_NoCreditRestored ==
    [][/\ row.exists => (row'.exists /\ row'.ai_credits_remaining <= row.ai_credits_remaining)
       /\ \A r \in Reqs :
            /\ (UpdateStep(r) /\ row' # row)
                  => row'.ai_credits_remaining = subscription[r].ai_credits_remaining - 1
            /\ FailsAfterUpdate(r) => row' = row]_vars

\* a request was told its page is not a job posting, and its credit stays taken
C27_FailedAndCharged ==
    /\ row.exists /\ row.ai_credits_remaining = 0 /\ row.ai_credits_used = 1
    /\ \E r \in Reqs : response[r].status # 0 /\ response[r].cause \in {"notJobPosting", "aiThrew"}


(***************************************************************************)
(* Properties of BoardTab (SpecBoard)                                      *)
(***************************************************************************)
\* C28: while the no-content dialog is open, pendingUrl is the URL whose
\* extraction failed, whichever handler had called processJobUrl.
C28_NoContentDialogHoldsFailedUrl ==
    dialogOpen["noContent"] => pendingUrl = failedUrl

\* the calls that are in processJobUrl, at analyzeJobUrl or at addJobPosting
Processing == {c \in 1..Len(calls) : calls[c].at \in {"analyze", "add"}}
\* the step starts a call of analyze-job
Invokes == Cardinality(InFlight') > Cardinality(InFlight)

\* C30: at most one analyze-job call is in flight; a submission while
\* isProcessing changes nothing; a call is started only while the client sees AI
\* credits, the job limit is not reached and the text is a URL; and isProcessing
\* is true exactly while a processJobUrl is between its start and its finally.
C30_OneAnalysisAtATime ==
    [][/\ Cardinality(InFlight') <= 1
       /\ (isProcessing /\ submits' # submits)
             => UNCHANGED <<jobPostings, inputValue, isProcessing, dialogOpen, pendingUrl,
                            calls, failedUrl>>
       /\ Invokes => /\ hasAnalysisCredits
                     /\ ~isAtJobLimit
                     /\ isUrl(calls'[Len(calls')].url)
       /\ isProcessing' <=> Processing' # {}]_vars

\* a second submission arrived while the first analysis was in flight
C30_SubmittedWhileProcessing ==
    isProcessing /\ submits >= 2 /\ Cardinality(InFlight) = 1

\* C23: every posting of the list has one of the eight statuses and a priority
\* in 1..5, the postings added by processJobUrl and handleNoContentConfirm
\* included.
C23_StatusAndPriorityInRange ==
    \A i \in 1..Len(jobPostings) :
        /\ jobPostings[i].status \in STATUS_ORDER
        /\ jobPostings[i].priority \in 1..5


(***************************************************************************)
(* Properties of the relative priority (SpecPriority)                      *)
(***************************************************************************)
\* twice the average of posting i
AverageOf(i) == Average2(jobPostings[i].companyScore, jobPostings[i].fitScore)
Scored == {i \in 1..Len(jobPostings) : AverageOf(i) > 0}
\* the scored postings with a strictly higher average than s
RankAmong(s) == Cardinality({i \in Scored : AverageOf(i) > s})
\* the scored postings with another average than s, and the posting itself
TotalAmong(s) == Cardinality({i \in Scored : AverageOf(i) # s}) + 1
\* 1, 2, 3, 4 or 5 as rank / total falls below 0.2, 0.4, 0.6, 0.8 or not
BucketOf(rank, total) == 1 + Cardinality({k \in 1..4 : 5 * rank >= k * total})

\* C24: calculateRelativePriority gives 3 for an average of 0 or when no posting is scored, else the
\* bucket of rank / total; and over the same postings a strictly higher average
\* never gets a larger priority than a lower one.
C24_PercentileBucketing ==
    /\ \A comp \in ScoreRange, fit \in ScoreRange :
          LET s == Average2(comp, fit)
          IN  calculateRelativePriority(jobPostings, comp, fit)
                 = IF s = 0 \/ Scored = {} THEN 3 ELSE BucketOf(RankAmong(s), TotalAmong(s))
    /\ \A c1 \in ScoreRange, f1 \in ScoreRange, c2 \in ScoreRange, f2 \in ScoreRange :
          Average2(c1, f1) > Average2(c2, f2)
             => calculateRelativePriority(jobPostings, c1, f1)
                   <= calculateRelativePriority(jobPostings, c2, f2)


(***************************************************************************)
(* Properties of the phone verification (SpecPhone)                        *)
(***************************************************************************)
UniquePhones(rows) ==
    \A r1 \in rows, r2 \in rows : r1.phone_number = r2.phone_number => r1.user_id = r2.user_id
OneRowPerUser(rows) ==
    \A r1 \in rows, r2 \in rows : r1.user_id = r2.user_id => r1 = r2

Settled == tab = requested /\ activeTab = requested

\* C29: activeTab is always a valid tab; a URL without a valid tab is redirected
\* to the default tab; once the URL and activeTab are at the requested tab the
\* effect (a step that is no user event) does not move them; and they end up there for good.
C29_TabAndUrlConverge ==
    /\ [](activeTab \in VALID_TABS)
    /\ (tab \notin VALID_TABS) ~> (tab = DefaultTab)
    /\ [][(Settled /\ events' = events) => (tab' = tab /\ activeTab' = activeTab)]_vars
    /\ <>[]Settled

\* after a user event the page is at the career tab, URL and state, with the
\* effect done
C29_SettledOnCareer ==
    events >= 1 /\ requested = "career" /\ Settled /\ ~effectPending

=============================================================================
